---- MODULE Spec2Model ----
(***************************************************************************)
(* ViceVault: the DCA engine worker (src/src/workers/dca-engine.worker.ts)  *)
(* and the bank statement parser (src/unnamed/part_003).                   *)
(*                                                                         *)
(* Dates are the "YYYY-MM-DD" strings the price feed and the store         *)
(* produce, written <<year, month, day>>.  Money and shares are fixed      *)
(* point numbers with resolution 1/Unit; closes are whole dollars.  Every  *)
(* positive close of the model divides every amount, so amount / close is  *)
(* exact, as it is in real arithmetic.                                     *)
(***************************************************************************)
EXTENDS Integers, Sequences, FiniteSets

(***************************************************************************)
(* Bounds and input domains                                                *)
(***************************************************************************)
MaxLen == 3

Unit == 2 * 11

Fixed(dollars) == dollars * Unit

Frequencies == {"daily", "weekly", "biweekly", "monthly"}

\* dates of the price points fed to the simulators
HistoryDates ==
    { <<2023, 12, 31>>, <<2024, 1, 1>>, <<2024, 1, 2>>, <<2024, 1, 8>>,
      <<2024, 1, 15>> }

StartDates == { <<2024, 1, 1>>, <<2024, 1, 2>> }

CleanDates == { <<2024, 1, 2>>, <<2024, 1, 8>> }

\* dates of the points handed to aggregateByMonth
AggDates == { <<2023, 12, 31>>, <<2024, 1, 1>>, <<2024, 1, 15>>, <<2024, 2, 1>> }

\* dates the scheduler is evaluated on
SchedDates ==
    { <<2023, 12, 31>>, <<2024, 1, 1>>, <<2024, 1, 2>>, <<2024, 1, 8>>,
      <<2024, 1, 9>>, <<2024, 1, 15>>, <<2024, 1, 31>>, <<2024, 2, 29>>,
      <<2024, 3, 1>>, <<2024, 3, 31>>, <<2024, 4, 8>>, <<2024, 4, 30>>,
      <<2024, 5, 1>>, <<2024, 5, 31>> }

Closes == {0, 100, 110}

Amounts == { Fixed(50) }

\* the worker's local zone, by where UTC midnight falls in local time:
\* "east" on the same local day (offset >= 0 all year), "west" on the previous
\* local day (offset < 0 all year), "seasonal" on the previous day in winter
\* and the same day in summer (Atlantic/Azores: UTC-1, UTC+0 in summer time)
Zones == {"east", "west", "seasonal"}

(***************************************************************************)
(* Date strings and the Date object                                        *)
(***************************************************************************)
\* a >= b on "YYYY-MM-DD" strings: code-unit order, field by field
StrGE(a, b) ==
    \/ a[1] > b[1]
    \/ a[1] = b[1] /\ a[2] > b[2]
    \/ a[1] = b[1] /\ a[2] = b[2] /\ a[3] >= b[3]

\* new Date("YYYY-MM-DD").getTime(), in whole days since 1970-01-01 UTC
GetTime(dateStr) ==
    LET y   == IF dateStr[2] <= 2 THEN dateStr[1] - 1 ELSE dateStr[1]
        era == y \div 400
        yoe == y - era * 400
        mp  == (dateStr[2] + 9) % 12
        doy == (153 * mp + 2) \div 5 + dateStr[3] - 1
        doe == yoe * 365 + yoe \div 4 - yoe \div 100 + doy
    IN  era * 146097 + doe - 719468

\* the last Sunday of a 31-day month, as a date
LastSunday(year, month) ==
    <<year, month, 31 - ((GetTime(<<year, month, 31>>) + 4) % 7)>>

\* summer time is in force at UTC midnight of the date (it starts and ends
\* at 01:00 UTC on the last Sundays of March and October)
IsSummer(dateStr) ==
    /\ GetTime(dateStr) > GetTime(LastSunday(dateStr[1], 3))
    /\ GetTime(dateStr) <= GetTime(LastSunday(dateStr[1], 10))

\* local day of the instant new Date(dateStr), relative to its UTC day
LocalShift(tz, dateStr) ==
    CASE tz = "east"     -> 0
      [] tz = "west"     -> -1
      [] tz = "seasonal" -> IF IsSummer(dateStr) THEN 0 ELSE -1

\* Date.prototype.getDay(): weekday (0 = Sunday) of the local day
GetDay(dateStr, tz) == (GetTime(dateStr) + LocalShift(tz, dateStr) + 4) % 7

\* Date.prototype.getDate(): day of the month of the local day
GetDate(dateStr, tz) ==
    LET z   == GetTime(dateStr) + LocalShift(tz, dateStr) + 719468
        era == z \div 146097
        doe == z - era * 146097
        yoe == (doe - doe \div 1460 + doe \div 36524 - doe \div 146096) \div 365
        doy == doe - (365 * yoe + yoe \div 4 - yoe \div 100)
        mp  == (5 * doy + 2) \div 153
    IN  doy - (153 * mp + 2) \div 5 + 1

\* the frequency switch, entered once the date is not before the start
FrequencyMatch(dateStr, freq, start, tz) ==
    CASE freq = "daily"    -> TRUE
      [] freq = "weekly"   -> GetDay(dateStr, tz) = GetDay(start, tz)
      [] freq = "biweekly" ->
           LET weekDiff == (GetTime(dateStr) - GetTime(start)) \div 7
           IN  GetDay(dateStr, tz) = GetDay(start, tz) /\ weekDiff % 2 = 0
      [] freq = "monthly"  -> GetDate(dateStr, tz) = GetDate(start, tz)
      [] OTHER             -> FALSE

shouldPurchaseOnDate_NoAnchor(dateStr, freq, start, tz) ==
    FrequencyMatch(dateStr, freq, start, tz)

shouldPurchaseOnDate(dateStr, freq, start, tz) ==
    IF GetTime(dateStr) < GetTime(start) THEN FALSE
    ELSE FrequencyMatch(dateStr, freq, start, tz)

(***************************************************************************)
(* State                                                                   *)
(***************************************************************************)
VARIABLES
    op,               \* the function under evaluation
    history,          \* PricePoint[] : [date, close]
    startDate,
    frequency,
    amount,
    cleanDays,        \* string[]
    zone,             \* local time zone of the worker
    dateStr,          \* argument of a direct shouldPurchaseOnDate evaluation
    pc,               \* "ready", "loop", "done"
    relevantHistory,
    idx,              \* position of the for-of loop in relevantHistory
    totalShares,
    totalCashSpent,
    purchasesCount,
    portfolio,        \* PortfolioPoint[]
    purchaseLog,      \* per emitted point: was the purchase branch taken
    result,           \* the returned DCAResult, or the scheduler's boolean
    aggPortfolio,     \* argument of aggregateByMonth
    monthly,          \* its Map, as the entries [key, value] in insertion order
    firstCall,        \* the previous aggregateByMonth call: argument and result
    text,             \* argument of parseStatementText, as its lines
    today,            \* the date new Date() reports during the call
    engine,           \* how the runtime's Date parser treats day overflow
    matches,          \* what pattern.exec returns, in the order of the loops
    matchedRanges,    \* [start, end] of every accepted match
    transactions,     \* ParsedTransaction[] before deduplication
    accepted,         \* per pushed transaction: position of its match in matches
    statement,        \* the ParsedTransaction[] handed to the categorizers
    results,          \* detectViceCategory's results array
    viceType,         \* argument of categorizeTransactions
    filtered,         \* what categorizeTransactions returned
    calcInputs,       \* useDCACalculation: the arguments of the current render
    snapshot,         \* useDCACalculation: number of effect runs so far
    workerAPI,        \* useDCACalculation: workerAPIRef.current
    requests,         \* useDCACalculation: the calculate() calls issued
    calc,             \* useDCACalculation: the hook's state
    symbol,           \* useMarketData: the argument of the current render
    market,           \* useMarketData: the hook's state
    tasks,            \* useMarketData: pending imports and fetches
    fetched,          \* useMarketData: how the last fetch in effect ended
    selections,       \* useMarketData: number of symbols selected so far
    store,            \* the vice store's state
    returned,         \* what the last store action returned
    lastCall          \* the last store action called

inputs == <<op, history, startDate, frequency, amount, cleanDays, zone, dateStr>>

locals == <<relevantHistory, idx, totalShares, totalCashSpent, purchasesCount,
            portfolio, purchaseLog>>

aggVars == <<aggPortfolio, monthly, firstCall>>

parseVars == <<text, today, engine, matches, matchedRanges, transactions,
               accepted>>

catVars == <<statement, results, viceType, filtered>>

hookVars == <<calcInputs, snapshot, workerAPI, requests, calc>>

marketVars == <<symbol, market, tasks, fetched, selections>>

storeVars == <<store, returned, lastCall>>

\* the variables of the hooks and the store
uiVars == <<hookVars, marketVars, storeVars>>

\* the variables of the categorizers, the hooks and the store
laterVars == <<catVars, uiVars>>

vars == <<op, history, startDate, frequency, amount, cleanDays, zone, dateStr,
          pc, relevantHistory, idx, totalShares, totalCashSpent, purchasesCount,
          portfolio, purchaseLog, result, aggPortfolio, monthly, firstCall,
          text, today, engine, matches, matchedRanges, transactions, accepted,
          statement, results, viceType, filtered,
          calcInputs, snapshot, workerAPI, requests, calc,
          symbol, market, tasks, fetched, selections, store, returned,
          lastCall>>

\* the variables of the worker, the parser and the categorizers
libVars == <<op, history, startDate, frequency, amount, cleanDays, zone, dateStr,
             pc, relevantHistory, idx, totalShares, totalCashSpent,
             purchasesCount, portfolio, purchaseLog, result, aggPortfolio,
             monthly, firstCall, text, today, engine, matches, matchedRanges,
             transactions, accepted, statement, results, viceType, filtered>>

NoResult == [none |-> TRUE]

NoDate == <<0, 0, 0>>

(***************************************************************************)
(* Inputs the callers can supply                                           *)
(***************************************************************************)
\* strictly ascending sequences over a set of dates, length <= n
RECURSIVE AscendingSeqs(_, _)
AscendingSeqs(S, n) ==
    IF n = 0 THEN { <<>> }
    ELSE LET shorter == AscendingSeqs(S, n - 1)
         IN  shorter \cup
             { Append(q, d) : q \in { r \in shorter : Len(r) = n - 1 }, d \in S }

IsAscending(q) == \A i \in 1..(Len(q) - 1) : ~StrGE(q[i], q[i + 1])

DateSeqs(S, n) == { q \in AscendingSeqs(S, n) : IsAscending(q) }

\* price histories: ascending dates, one point per date
Histories ==
    UNION { { [i \in 1..Len(ds) |-> [date |-> ds[i], close |-> cs[i]]] :
                cs \in [1..Len(ds) -> Closes] } :
            ds \in DateSeqs(HistoryDates, MaxLen) }

\* the store keeps cleanDays sorted and free of duplicates
CleanDayLists == DateSeqs(CleanDates, Cardinality(CleanDates))

\* the points handed to aggregateByMonth, in any order; the i-th point
\* carries values that identify it
AggPoint(date, i) ==
    [ date |-> date, cashSpent |-> Fixed(i), portfolioValue |-> Fixed(i) + 1,
      sharesOwned |-> i ]

AggInputs ==
    UNION { { [i \in 1..n |-> AggPoint(ds[i], i)] : ds \in [1..n -> AggDates] } :
            n \in 0..MaxLen }

Simulators == {"ghost", "potential"}

\* before a call: no locals, nothing returned
Idle ==
    /\ pc = "ready"
    /\ relevantHistory = <<>>
    /\ idx = 0
    /\ totalShares = 0
    /\ totalCashSpent = 0
    /\ purchasesCount = 0
    /\ portfolio = <<>>
    /\ purchaseLog = <<>>
    /\ result = NoResult
    /\ monthly = <<>>
    /\ firstCall = NoResult
    /\ matches = <<>>
    /\ matchedRanges = <<>>
    /\ transactions = <<>>
    /\ accepted = <<>>

\* no statement is being parsed
NoStatement ==
    /\ text = <<>>
    /\ today = NoDate
    /\ engine = "strict"

\* nothing is being categorized
NoCategorization ==
    /\ statement = <<>>
    /\ results = <<>>
    /\ viceType = <<>>
    /\ filtered = <<>>

\* a portfolio with no points and a null summary
EmptyPortfolio == [portfolio |-> <<>>, summary |-> <<>>]

\* useDCACalculation is not mounted: the useState defaults
NoCalculation ==
    /\ calcInputs = [history |-> "null", amount |-> 0, cleanDays |-> <<>>]
    /\ snapshot = 0
    /\ workerAPI = "null"
    /\ requests = <<>>
    /\ calc = [ actual |-> EmptyPortfolio, projection |-> EmptyPortfolio,
                isCalculating |-> FALSE, error |-> "null" ]

\* null, where a price series is expected
NullSeries == [source |-> "null", symbol |-> "", empty |-> TRUE]

\* useMarketData is not mounted: the useState defaults
NoMarketData ==
    /\ symbol = ""
    /\ market = [ fallbackData |-> NullSeries, data |-> NullSeries,
                  isLoading |-> TRUE,
                  error |-> "null", isUsingFallback |-> FALSE ]
    /\ tasks = <<>>
    /\ fetched = [symbol |-> "", outcome |-> "none"]
    /\ selections = 0

\* initialState of the store
initialState ==
    [ stripeSubscriptionId |-> "null", subscriptionStatus |-> "none",
      startDate |-> NoDate, cleanDays |-> <<>>, streakFreezes |-> 1,
      lastStreakFreezeReset |-> NoDate, selectedAsset |-> "SPY" ]

NoStoreCall ==
    /\ store = initialState
    /\ returned = "undefined"
    /\ lastCall = [name |-> "none", arg |-> NoDate]

\* the hooks and the store are at rest
UiIdle == NoCalculation /\ NoMarketData /\ NoStoreCall

\* the categorizers, the hooks and the store are at rest
LaterIdle == NoCategorization /\ UiIdle

\* a call of one of the simulators or of the scheduler
Init ==
    /\ op \in Simulators \cup {"schedule"}
    /\ startDate \in (IF op = "schedule" THEN SchedDates ELSE StartDates)
    /\ frequency \in Frequencies
    /\ zone \in Zones
    /\ history \in (IF op = "schedule" THEN { <<>> } ELSE Histories)
    /\ amount \in (IF op = "schedule" THEN {0} ELSE Amounts)
    /\ cleanDays \in (IF op = "ghost" THEN CleanDayLists ELSE { <<>> })
    /\ dateStr \in (IF op = "schedule" THEN SchedDates ELSE { NoDate })
    /\ aggPortfolio = <<>>
    /\ NoStatement
    /\ LaterIdle
    /\ Idle

\* a call of aggregateByMonth
AggInit ==
    /\ op = "aggregate"
    /\ aggPortfolio \in AggInputs
    /\ startDate = NoDate
    /\ frequency = "daily"
    /\ zone = "east"
    /\ history = <<>>
    /\ amount = 0
    /\ cleanDays = <<>>
    /\ dateStr = NoDate
    /\ NoStatement
    /\ LaterIdle
    /\ Idle

(***************************************************************************)
(* calculateGhostPortfolio / calculatePotentialPortfolio                   *)
(***************************************************************************)
numCleanDays == Len(cleanDays)

ZeroSummary ==
    [ totalCashSpent |-> 0, currentValue |-> 0, totalShares |-> 0,
      gainLoss |-> 0, gainLossPercent |-> <<0, 1>>,
      cleanDaysCount |-> 0, purchasesCount |-> 0 ]

FilterFromStart_Strict(h, start) ==
    SelectSeq(h, LAMBDA point : StrGE(point.date, start) /\ point.date # start)

\* history.filter((point) => point.date >= startDate)
FilterFromStart(h, start) == SelectSeq(h, LAMBDA point : StrGE(point.date, start))

\* shares bought for one purchase: amount / close
SharesToBuy(amt, close) == amt \div close

Abs(x) == IF x < 0 THEN -x ELSE x

RECURSIVE GCD(_, _)
GCD(a, b) == IF b = 0 THEN a ELSE GCD(b, a % b)

\* the rational n / d (d > 0) in lowest terms, <<numerator, denominator>>
Ratio(n, d) ==
    LET g == GCD(Abs(n), d)
    IN  <<n \div g, d \div g>>

Percent_NoScale(a, b) == Ratio(a, b)

\* (a / b) * 100 for b > 0
Percent(a, b) == Ratio(a * 100, b)

CurrentValue_First(pf) == IF Len(pf) > 0 THEN pf[1].portfolioValue ELSE 0

\* the last point's portfolioValue, 0 for an empty portfolio
CurrentValue(pf) == IF Len(pf) > 0 THEN pf[Len(pf)].portfolioValue ELSE 0

\* summary fields derived after the loop
Summarize(pf, cash, shares, purchases, cleanCount) ==
    LET currentValue == CurrentValue(pf)
        gainLoss == currentValue - cash
        gainLossPercent == IF cash > 0 THEN Percent(gainLoss, cash) ELSE <<0, 1>>
    IN  [ totalCashSpent |-> cash, currentValue |-> currentValue,
          totalShares |-> shares, gainLoss |-> gainLoss,
          gainLossPercent |-> gainLossPercent,
          cleanDaysCount |-> cleanCount, purchasesCount |-> purchases ]

GhostShouldPurchase_NoCap(point) ==
    shouldPurchaseOnDate(point.date, frequency, startDate, zone)

GhostShouldPurchase_OffByOne(point) ==
    /\ shouldPurchaseOnDate(point.date, frequency, startDate, zone)
    /\ purchasesCount <= numCleanDays

\* the purchase test of the Ghost loop
GhostShouldPurchase(point) ==
    /\ shouldPurchaseOnDate(point.date, frequency, startDate, zone)
    /\ purchasesCount < numCleanDays

PotentialShouldPurchase_Swapped(point) ==
    shouldPurchaseOnDate(startDate, frequency, point.date, zone)

\* the purchase test of the Potential loop
PotentialShouldPurchase(point) ==
    shouldPurchaseOnDate(point.date, frequency, startDate, zone)

\* totalShares += sharesToBuy
AddShares_Overwrite(total, amt, close) == SharesToBuy(amt, close)

AddShares(total, amt, close) == total + SharesToBuy(amt, close)

\* totalCashSpent += amount
AddCash_Overwrite(total, amt) == amt

AddCash(total, amt) == total + amt

LoopBody_CountsScheduled(point, shouldPurchase) ==
    LET buy == shouldPurchase /\ point.close > 0
        shares == IF buy THEN AddShares(totalShares, amount, point.close)
                  ELSE totalShares
        cash == IF buy THEN AddCash(totalCashSpent, amount) ELSE totalCashSpent
    IN  /\ totalShares' = shares
        /\ totalCashSpent' = cash
        /\ purchasesCount' = IF shouldPurchase THEN purchasesCount + 1
                              ELSE purchasesCount
        /\ portfolio' = Append(portfolio,
                               [ date |-> point.date, cashSpent |-> cash,
                                 portfolioValue |-> shares * point.close,
                                 sharesOwned |-> shares ])
        /\ purchaseLog' = Append(purchaseLog, buy)
        /\ idx' = idx + 1

\* one iteration of the for-of loop, the same in both simulators
LoopBody(point, shouldPurchase) ==
    LET buy == shouldPurchase /\ point.close > 0
        shares == IF buy THEN AddShares(totalShares, amount, point.close)
                  ELSE totalShares
        cash == IF buy THEN AddCash(totalCashSpent, amount) ELSE totalCashSpent
    IN  /\ totalShares' = shares
        /\ totalCashSpent' = cash
        /\ purchasesCount' = IF buy THEN purchasesCount + 1 ELSE purchasesCount
        /\ portfolio' = Append(portfolio,
                               [ date |-> point.date, cashSpent |-> cash,
                                 portfolioValue |-> shares * point.close,
                                 sharesOwned |-> shares ])
        /\ purchaseLog' = Append(purchaseLog, buy)
        /\ idx' = idx + 1

CallGhost_NoGuard ==
    /\ op = "ghost" /\ pc = "ready"
    /\ relevantHistory' = FilterFromStart(history, startDate)
    /\ idx' = 1
    /\ pc' = "loop"
    /\ UNCHANGED <<inputs, totalShares, totalCashSpent, purchasesCount,
                   portfolio, purchaseLog, result>>
    /\ UNCHANGED <<aggVars, parseVars, laterVars>>

CallGhost ==
    /\ op = "ghost" /\ pc = "ready"
    /\ IF numCleanDays = 0
       THEN /\ result' = [portfolio |-> <<>>, summary |-> ZeroSummary]
            /\ pc' = "done"
            /\ UNCHANGED locals
       ELSE /\ relevantHistory' = FilterFromStart(history, startDate)
            /\ idx' = 1
            /\ pc' = "loop"
            /\ UNCHANGED <<totalShares, totalCashSpent, purchasesCount,
                           portfolio, purchaseLog, result>>
    /\ UNCHANGED inputs
    /\ UNCHANGED <<aggVars, parseVars, laterVars>>

GhostStep ==
    /\ op = "ghost" /\ pc = "loop" /\ idx <= Len(relevantHistory)
    /\ LoopBody(relevantHistory[idx], GhostShouldPurchase(relevantHistory[idx]))
    /\ UNCHANGED <<inputs, pc, relevantHistory, result>>
    /\ UNCHANGED <<aggVars, parseVars, laterVars>>

GhostReturn ==
    /\ op = "ghost" /\ pc = "loop" /\ idx > Len(relevantHistory)
    /\ result' = [ portfolio |-> portfolio,
                   summary |-> Summarize(portfolio, totalCashSpent, totalShares,
                                         purchasesCount, numCleanDays) ]
    /\ pc' = "done"
    /\ UNCHANGED <<inputs, locals>>
    /\ UNCHANGED <<aggVars, parseVars, laterVars>>

CallPotential ==
    /\ op = "potential" /\ pc = "ready"
    /\ relevantHistory' = FilterFromStart(history, startDate)
    /\ idx' = 1
    /\ pc' = "loop"
    /\ UNCHANGED <<inputs, totalShares, totalCashSpent, purchasesCount,
                   portfolio, purchaseLog, result>>
    /\ UNCHANGED <<aggVars, parseVars, laterVars>>

PotentialStep ==
    /\ op = "potential" /\ pc = "loop" /\ idx <= Len(relevantHistory)
    /\ LoopBody(relevantHistory[idx], PotentialShouldPurchase(relevantHistory[idx]))
    /\ UNCHANGED <<inputs, pc, relevantHistory, result>>
    /\ UNCHANGED <<aggVars, parseVars, laterVars>>

PotentialReturn ==
    /\ op = "potential" /\ pc = "loop" /\ idx > Len(relevantHistory)
    /\ result' = [ portfolio |-> portfolio,
                   summary |-> Summarize(portfolio, totalCashSpent, totalShares,
                                         purchasesCount, purchasesCount) ]
    /\ pc' = "done"
    /\ UNCHANGED <<inputs, locals>>
    /\ UNCHANGED <<aggVars, parseVars, laterVars>>

\* a direct evaluation of the scheduler predicate
EvalSchedule ==
    /\ op = "schedule" /\ pc = "ready"
    /\ result' = shouldPurchaseOnDate(dateStr, frequency, startDate, zone)
    /\ pc' = "done"
    /\ UNCHANGED <<inputs, locals>>
    /\ UNCHANGED <<aggVars, parseVars, laterVars>>

(***************************************************************************)
(* aggregateByMonth                                                        *)
(***************************************************************************)
\* point.date.substring(0, 7): "YYYY-MM"
MonthKey(date) == <<date[1], date[2]>>

MapHas(m, key) == \E i \in 1..Len(m) : m[i].key = key

MapSet_KeepFirst(m, key, value) ==
    IF MapHas(m, key) THEN m ELSE Append(m, [key |-> key, value |-> value])

\* Map.prototype.set: a present key keeps its position and takes the new
\* value, a new key is added at the end
MapSet(m, key, value) ==
    IF MapHas(m, key)
    THEN [i \in 1..Len(m) |->
            IF m[i].key = key THEN [key |-> key, value |-> value] ELSE m[i]]
    ELSE Append(m, [key |-> key, value |-> value])

MonthlyValues_Reversed(m) == [i \in 1..Len(m) |-> m[Len(m) + 1 - i].value]

\* Array.from(monthly.values())
MonthlyValues(m) == [i \in 1..Len(m) |-> m[i].value]

dcaVars == <<op, history, startDate, frequency, amount, cleanDays, zone, dateStr,
             relevantHistory, totalShares, totalCashSpent, purchasesCount,
             portfolio, purchaseLog>>

CallAggregate ==
    /\ op = "aggregate" /\ pc = "ready"
    /\ monthly' = <<>>
    /\ idx' = 1
    /\ pc' = "loop"
    /\ UNCHANGED <<dcaVars, parseVars, laterVars, result, aggPortfolio, firstCall>>

AggregateStep ==
    /\ op = "aggregate" /\ pc = "loop" /\ idx <= Len(aggPortfolio)
    /\ LET point == aggPortfolio[idx]
       IN  monthly' = MapSet(monthly, MonthKey(point.date),
                             [ date |-> point.date,
                               cashSpent |-> point.cashSpent,
                               portfolioValue |-> point.portfolioValue,
                               sharesOwned |-> point.sharesOwned ])
    /\ idx' = idx + 1
    /\ UNCHANGED <<dcaVars, parseVars, laterVars, pc, result, aggPortfolio, firstCall>>

AggregateReturn ==
    /\ op = "aggregate" /\ pc = "loop" /\ idx > Len(aggPortfolio)
    /\ result' = MonthlyValues(monthly)
    /\ pc' = "done"
    /\ UNCHANGED <<dcaVars, parseVars, laterVars, idx, aggVars>>

\* the caller hands the returned series to aggregateByMonth again
AggregateAgain ==
    /\ op = "aggregate" /\ pc = "done" /\ firstCall = NoResult
    /\ firstCall' = [portfolio |-> aggPortfolio, returned |-> result]
    /\ aggPortfolio' = result
    /\ result' = NoResult
    /\ pc' = "ready"
    /\ UNCHANGED <<dcaVars, parseVars, laterVars, idx, monthly>>

Next ==
    \/ CallGhost
    \/ GhostStep
    \/ GhostReturn
    \/ CallPotential
    \/ PotentialStep
    \/ PotentialReturn
    \/ EvalSchedule

Spec == Init /\ [][Next]_vars

AggNext ==
    \/ CallAggregate
    \/ AggregateStep
    \/ AggregateReturn
    \/ AggregateAgain

AggSpec == AggInit /\ [][AggNext]_vars

(***************************************************************************)
(* The statement parser (src/unnamed/part_003, parseStatementText).        *)
(* Strings are sequences of characters, amounts are whole cents, and the   *)
(* "YYYY-MM-DD" strings normalizeDate builds are <<year, month, day>>:     *)
(* padStart makes every field of fixed width, so the triple determines the *)
(* string.                                                                 *)
(***************************************************************************)
MaxLines == 2

NumPatterns == 15

DigitChars == <<"0", "1", "2", "3", "4", "5", "6", "7", "8", "9">>

UpperCase ==
    <<"A", "B", "C", "D", "E", "F", "G", "H", "I", "J", "K", "L", "M",
      "N", "O", "P", "Q", "R", "S", "T", "U", "V", "W", "X", "Y", "Z">>

LowerCase ==
    <<"a", "b", "c", "d", "e", "f", "g", "h", "i", "j", "k", "l", "m",
      "n", "o", "p", "q", "r", "s", "t", "u", "v", "w", "x", "y", "z">>

\* \d
IsDigit(c) == \E i \in 1..10 : DigitChars[i] = c

DigitValue(c) == (CHOOSE i \in 1..10 : DigitChars[i] = c) - 1

\* \s, over the characters a normalized text holds
IsSpace(c) == c \in {" ", "\t", "\n"}

ToLowerChar(c) ==
    IF \E i \in 1..26 : UpperCase[i] = c
    THEN LowerCase[CHOOSE i \in 1..26 : UpperCase[i] = c]
    ELSE c

\* String.prototype.toLowerCase
toLowerCase(s) == [i \in 1..Len(s) |-> ToLowerChar(s[i])]

\* [a-z0-9]
IsLowerAlnum(c) == IsDigit(c) \/ \E i \in 1..26 : LowerCase[i] = c

\* String.prototype.substring(start, end), positions counted from 0
Substring(s, start, end) == SubSeq(s, start + 1, end)

\* String.prototype.slice(0, n)
SliceFromStart(s, n) == SubSeq(s, 1, IF n < Len(s) THEN n ELSE Len(s))

\* parseInt of a string of digits
RECURSIVE ParseInt(_)
ParseInt(s) ==
    IF s = <<>> THEN 0
    ELSE 10 * ParseInt(SubSeq(s, 1, Len(s) - 1)) + DigitValue(s[Len(s)])

AllDigits(s) == \A i \in 1..Len(s) : IsDigit(s[i])

\* the first position from i on that holds no white space (no digit)
SkipSpaces(s, i) ==
    CHOOSE j \in i..(Len(s) + 1) :
        /\ \A k \in i..(j - 1) : IsSpace(s[k])
        /\ j = Len(s) + 1 \/ ~IsSpace(s[j])

SkipDigits(s, i) ==
    CHOOSE j \in i..(Len(s) + 1) :
        /\ \A k \in i..(j - 1) : IsDigit(s[k])
        /\ j = Len(s) + 1 \/ ~IsDigit(s[j])

\* the word w stands in s at position i
HasAt(s, i, w) ==
    /\ i + Len(w) - 1 <= Len(s)
    /\ SubSeq(s, i, i + Len(w) - 1) = w

Contains(s, w) == \E i \in 1..Len(s) : HasAt(s, i, w)

\* /w\d/
ContainsBeforeDigit(s, w) ==
    \E i \in 1..Len(s) :
        /\ HasAt(s, i, w)
        /\ i + Len(w) <= Len(s)
        /\ IsDigit(s[i + Len(w)])

\* /v.*w/
ContainsOnOneLine(s, v, w) ==
    \E i \in 1..Len(s) :
        /\ HasAt(s, i, v)
        /\ \E j \in (i + Len(v))..Len(s) :
               /\ HasAt(s, j, w)
               /\ \A k \in (i + Len(v))..(j - 1) : s[k] # "\n"

\* String.prototype.trim
trim(s) ==
    LET first == SkipSpaces(s, 1)
        last == IF first > Len(s) THEN 0
                ELSE CHOOSE j \in first..Len(s) :
                        /\ ~IsSpace(s[j])
                        /\ \A k \in (j + 1)..Len(s) : IsSpace(s[k])
    IN  SubSeq(s, first, last)

\* SKIP_KEYWORDS of the form /^word$/i
SkipWholeMatch ==
    { <<"b", "a", "l", "a", "n", "c", "e">>,
      <<"a", "v", "a", "i", "l", "a", "b", "l", "e">>,
      <<"s", "t", "a", "t", "e", "m", "e", "n", "t">>,
      <<"t", "o", "t", "a", "l">>,
      <<"p", "e", "n", "d", "i", "n", "g">>,
      <<"s", "u", "m", "m", "a", "r", "y">>,
      <<"i", "n", "t", "e", "r", "e", "s", "t">>,
      <<"d", "i", "r", "e", "c", "t", " ", "d", "e", "p", "o", "s", "i", "t">>,
      <<"p", "a", "y", "r", "o", "l", "l">>,
      <<"z", "e", "l", "l", "e">>,
      <<"w", "i", "r", "e", " ", "t", "r", "a", "n", "s", "f", "e", "r">> }

\* SKIP_KEYWORDS of the form /phrase/i
SkipPhrases ==
    { <<"e", "n", "d", "i", "n", "g", " ", "b", "a", "l">>,
      <<"b", "e", "g", "i", "n", "n", "i", "n", "g", " ", "b", "a", "l">>,
      <<"f", "e", "e", " ", "w", "a", "i", "v", "e", "d">> }

\* SKIP_KEYWORDS of the form /phrase \d/i
SkipBeforeDigit ==
    { <<"p", "a", "g", "e", " ">>,
      <<"a", "s", " ", "o", "f", " ">> }

\* the two words of /account.*number/i
AccountWord == <<"a", "c", "c", "o", "u", "n", "t">>

NumberWord == <<"n", "u", "m", "b", "e", "r">>

\* the words of /^(date|description|amount|balance|transaction)/i
HeaderWords ==
    { <<"d", "a", "t", "e">>,
      <<"d", "e", "s", "c", "r", "i", "p", "t", "i", "o", "n">>,
      <<"a", "m", "o", "u", "n", "t">>,
      <<"b", "a", "l", "a", "n", "c", "e">>,
      <<"t", "r", "a", "n", "s", "a", "c", "t", "i", "o", "n">> }

\* the word of /CARD \d+/gi
CardWord == <<"c", "a", "r", "d", " ">>

\* SKIP_KEYWORDS.some(p => p.test(rawMatch))
MatchesSkipKeyword(rawMatch) ==
    LET s == toLowerCase(rawMatch)
    IN  \/ s \in SkipWholeMatch
        \/ \E w \in SkipPhrases : Contains(s, w)
        \/ \E w \in SkipBeforeDigit : ContainsBeforeDigit(s, w)
        \/ ContainsOnOneLine(s, AccountWord, NumberWord)

\* /^(date|description|amount|balance|transaction)/i.test(description)
LooksLikeHeader(description) ==
    \E w \in HeaderWords : HasAt(toLowerCase(description), 1, w)

\* .replace(/\s+/g, " ")
RECURSIVE NormalizeWhitespace(_, _)
NormalizeWhitespace(s, i) ==
    IF i > Len(s) THEN <<>>
    ELSE IF IsSpace(s[i])
         THEN <<" ">> \o NormalizeWhitespace(s, SkipSpaces(s, i))
         ELSE <<s[i]>> \o NormalizeWhitespace(s, i + 1)

\* .replace(/\s*#\d+\s*/g, " ")
RECURSIVE RemoveStoreNumbers(_, _)
RemoveStoreNumbers(s, i) ==
    IF i > Len(s) THEN <<>>
    ELSE LET hash == SkipSpaces(s, i)
         IN  IF /\ hash + 1 <= Len(s)
                /\ s[hash] = "#"
                /\ IsDigit(s[hash + 1])
             THEN <<" ">> \o
                  RemoveStoreNumbers(s, SkipSpaces(s, SkipDigits(s, hash + 1)))
             ELSE <<s[i]>> \o RemoveStoreNumbers(s, i + 1)

\* .replace(/\s*\d{4}$/, "")
RemoveTrailingCardNumber(s) ==
    IF Len(s) >= 4 /\ AllDigits(SubSeq(s, Len(s) - 3, Len(s)))
    THEN LET from == CHOOSE i \in 1..(Len(s) - 3) :
                        /\ \A k \in i..(Len(s) - 4) : IsSpace(s[k])
                        /\ i = 1 \/ ~IsSpace(s[i - 1])
         IN  SubSeq(s, 1, from - 1)
    ELSE s

\* .replace(/CARD \d+/gi, "")
RECURSIVE RemoveCardWords(_, _)
RemoveCardWords(s, i) ==
    IF i > Len(s) THEN <<>>
    ELSE IF /\ i + Len(CardWord) <= Len(s)
            /\ toLowerCase(SubSeq(s, i, i + Len(CardWord) - 1)) = CardWord
            /\ IsDigit(s[i + Len(CardWord)])
         THEN RemoveCardWords(s, SkipDigits(s, i + Len(CardWord)))
         ELSE <<s[i]>> \o RemoveCardWords(s, i + 1)

\* .replace(/\s{2,}/g, " ")
RECURSIVE CollapseSpaces(_, _)
CollapseSpaces(s, i) ==
    IF i > Len(s) THEN <<>>
    ELSE IF IsSpace(s[i]) /\ i + 1 <= Len(s) /\ IsSpace(s[i + 1])
         THEN <<" ">> \o CollapseSpaces(s, SkipSpaces(s, i))
         ELSE <<s[i]>> \o CollapseSpaces(s, i + 1)

cleanDescription(desc) ==
    IF desc = <<>> THEN <<>>
    ELSE LET a == NormalizeWhitespace(desc, 1)
             b == RemoveStoreNumbers(a, 1)
             c == RemoveTrailingCardNumber(b)
             d == RemoveCardWords(c, 1)
             e == CollapseSpaces(d, 1)
         IN  trim(e)

NaN == [isNaN |-> TRUE, cents |-> 0]

\* parseFloat of [sign] digits [. digits], in cents; the patterns capture
\* exactly two digits after the point, which is all this reads
parseFloat(s) ==
    LET start == IF s # <<>> /\ s[1] \in {"-", "+"} THEN 2 ELSE 1
        point == SkipDigits(s, start)
        whole == SubSeq(s, start, point - 1)
        last == IF point <= Len(s) /\ s[point] = "." THEN SkipDigits(s, point + 1)
                ELSE point
        fraction == SubSeq(s, point + 1, last - 1)
        tenths == IF Len(fraction) >= 1 THEN DigitValue(fraction[1]) ELSE 0
        hundredths == IF Len(fraction) >= 2 THEN DigitValue(fraction[2]) ELSE 0
        magnitude == 100 * ParseInt(whole) + 10 * tenths + hundredths
    IN  IF whole = <<>> /\ fraction = <<>> THEN NaN
        ELSE [isNaN |-> FALSE,
              cents |-> IF start = 2 /\ s[1] = "-" THEN 0 - magnitude
                        ELSE magnitude]

\* amountStr.replace(/[$,]/g, "") ; Math.abs(parseFloat(cleaned))
parseAmount(amountStr) ==
    LET cleaned == SelectSeq(amountStr, LAMBDA c : c \notin {"$", ","})
        parsed == parseFloat(cleaned)
    IN  IF parsed.isNaN THEN NaN
        ELSE [isNaN |-> FALSE, cents |-> Abs(parsed.cents)]

Cents(dollars) == 100 * dollars

MaxAmount == 100000

MinDescriptionLength == 3

CenturyPivot == 50

KeyLen == 20

IsLeapYear(year) ==
    (year % 4 = 0 /\ year % 100 # 0) \/ year % 400 = 0

DaysInMonth(year, month) ==
    IF month = 2 THEN (IF IsLeapYear(year) THEN 29 ELSE 28)
    ELSE IF month \in {4, 6, 9, 11} THEN 30 ELSE 31

\* the runtimes differ on a day past the end of its month: one rejects the
\* string, the other accepts every day up to 31 and rolls the date over
Engines == {"strict", "lenient"}

Todays == { <<2026, 11, 1>> }

\* !isNaN(new Date(isoString).getTime())
isValidISODate(isoString, eng) ==
    /\ isoString[2] \in 1..12
    /\ isoString[3] >= 1
    /\ isoString[3] <= (IF eng = "lenient" THEN 31
                        ELSE DaysInMonth(isoString[1], isoString[2]))

\* String.prototype.split(sep)
RECURSIVE Split(_, _)
Split(s, sep) ==
    IF \A i \in 1..Len(s) : s[i] # sep THEN << s >>
    ELSE LET p == CHOOSE i \in 1..Len(s) :
                      s[i] = sep /\ \A k \in 1..(i - 1) : s[k] # sep
         IN  << SubSeq(s, 1, p - 1) >> \o Split(SubSeq(s, p + 1, Len(s)), sep)

\* \d{lo,hi}
IsField(f, lo, hi) == Len(f) \in lo..hi /\ AllDigits(f)

FullYear(year) ==
    IF ParseInt(year) > CenturyPivot THEN 1900 + ParseInt(year)
    ELSE 2000 + ParseInt(year)

OrToday(isoString, now, eng) ==
    IF isValidISODate(isoString, eng) THEN isoString ELSE now

normalizeDate(dateString, now, eng) ==
    LET s == trim(dateString)
        slash == Split(s, "/")
        dash == Split(s, "-")
        currentYear == now[1]
        todayFallback == now
    IN  IF /\ Len(slash) = 2
           /\ IsField(slash[1], 1, 2) /\ IsField(slash[2], 1, 2)
        THEN OrToday(<<currentYear, ParseInt(slash[1]), ParseInt(slash[2])>>,
                     todayFallback, eng)
        ELSE IF /\ Len(slash) = 3
                /\ IsField(slash[1], 1, 2) /\ IsField(slash[2], 1, 2)
                /\ IsField(slash[3], 2, 2)
        THEN OrToday(<<FullYear(slash[3]), ParseInt(slash[1]),
                       ParseInt(slash[2])>>, todayFallback, eng)
        ELSE IF /\ Len(slash) = 3
                /\ IsField(slash[1], 1, 2) /\ IsField(slash[2], 1, 2)
                /\ IsField(slash[3], 4, 4)
        THEN OrToday(<<ParseInt(slash[3]), ParseInt(slash[1]),
                       ParseInt(slash[2])>>, todayFallback, eng)
        ELSE IF /\ Len(dash) = 3
                /\ IsField(dash[1], 1, 2) /\ IsField(dash[2], 1, 2)
                /\ IsField(dash[3], 4, 4)
        THEN OrToday(<<ParseInt(dash[3]), ParseInt(dash[1]),
                       ParseInt(dash[2])>>, todayFallback, eng)
        ELSE IF /\ Len(dash) = 3
                /\ IsField(dash[1], 1, 2) /\ IsField(dash[2], 1, 2)
                /\ IsField(dash[3], 2, 2)
        THEN OrToday(<<FullYear(dash[3]), ParseInt(dash[1]),
                       ParseInt(dash[2])>>, todayFallback, eng)
        ELSE todayFallback

\* Number.prototype.toFixed(2) of an amount of whole cents
toFixed(amt) == <<amt \div 100, amt % 100>>

NormalizedDesc_NoSlice(description) ==
    SelectSeq(toLowerCase(description), IsLowerAlnum)

NormalizedDesc(description) ==
    SliceFromStart(SelectSeq(toLowerCase(description), IsLowerAlnum), KeyLen)

createDedupeKey(t) ==
    <<t.date, NormalizedDesc(t.description), toFixed(t.amount)>>

RECURSIVE FilterUnseen(_, _)
FilterUnseen(ts, seen) ==
    IF ts = <<>> THEN <<>>
    ELSE LET t == Head(ts)
             key == createDedupeKey(t)
         IN  IF t.description = <<>> THEN FilterUnseen(Tail(ts), seen)
             ELSE IF key \in seen THEN FilterUnseen(Tail(ts), seen)
             ELSE <<t>> \o FilterUnseen(Tail(ts), seen \cup {key})

deduplicateTransactions(ts) == FilterUnseen(ts, {})

\* a.date.localeCompare(b.date) on ISO dates
localeCompare(a, b) == IF a = b THEN 0 ELSE IF StrGE(a, b) THEN 1 ELSE -1

InsertByDate_BeforeEqual(sorted, t) ==
    LET k == Cardinality({ i \in 1..Len(sorted) :
                             localeCompare(sorted[i].date, t.date) < 0 })
    IN  SubSeq(sorted, 1, k) \o <<t>> \o SubSeq(sorted, k + 1, Len(sorted))

\* Array.prototype.sort is stable: equal dates keep their order
InsertByDate(sorted, t) ==
    LET k == Cardinality({ i \in 1..Len(sorted) :
                             localeCompare(sorted[i].date, t.date) <= 0 })
    IN  SubSeq(sorted, 1, k) \o <<t>> \o SubSeq(sorted, k + 1, Len(sorted))

RECURSIVE SortByDate(_)
SortByDate(ts) ==
    IF ts = <<>> THEN <<>>
    ELSE InsertByDate(SortByDate(SubSeq(ts, 1, Len(ts) - 1)), ts[Len(ts)])

isOverlapping_Never(ranges, start, end) == FALSE

isOverlapping(ranges, start, end) ==
    \E i \in 1..Len(ranges) : start < ranges[i].end /\ end > ranges[i].start

\* the statement lines the model draws a text from
StatementLines ==
    <<
      \* 1: 01/15/2024  STARBUCKS #12345 SEATTLE WA  -$5.75
      <<"0", "1", "/", "1", "5", "/", "2", "0", "2", "4", " ", " ", "S",
      "T", "A", "R", "B", "U", "C", "K", "S", " ", "#", "1", "2", "3", "4",
      "5", " ", "S", "E", "A", "T", "T", "L", "E", " ", "W", "A", " ", " ",
      "-", "$", "5", ".", "7", "5">>,
      \* 2: 01/15/24  Starbucks Seattle WA  $5.75  Debit
      <<"0", "1", "/", "1", "5", "/", "2", "4", " ", " ", "S", "t", "a",
      "r", "b", "u", "c", "k", "s", " ", "S", "e", "a", "t", "t", "l", "e",
      " ", "W", "A", " ", " ", "$", "5", ".", "7", "5", " ", " ", "D", "e",
      "b", "i", "t">>,
      \* 3: 13/45/2024 NETFLIX.COM $15.99
      <<"1", "3", "/", "4", "5", "/", "2", "0", "2", "4", " ", "N", "E",
      "T", "F", "L", "I", "X", ".", "C", "O", "M", " ", "$", "1", "5", ".",
      "9", "9">>,
      \* 4: 01/14/2024 NETFLIX.COM $15.99
      <<"0", "1", "/", "1", "4", "/", "2", "0", "2", "4", " ", "N", "E",
      "T", "F", "L", "I", "X", ".", "C", "O", "M", " ", "$", "1", "5", ".",
      "9", "9">>,
      \* 5: 01/15/2024 ENDING BALANCE $1,234.56
      <<"0", "1", "/", "1", "5", "/", "2", "0", "2", "4", " ", "E", "N",
      "D", "I", "N", "G", " ", "B", "A", "L", "A", "N", "C", "E", " ", "$",
      "1", ",", "2", "3", "4", ".", "5", "6">>,
      \* 6: 01/15/2024 WIRE OUT $100,000.01
      <<"0", "1", "/", "1", "5", "/", "2", "0", "2", "4", " ", "W", "I",
      "R", "E", " ", "O", "U", "T", " ", "$", "1", "0", "0", ",", "0", "0",
      "0", ".", "0", "1">>,
      \* 7: 01/15/2024 ADJUSTMENT $0.00
      <<"0", "1", "/", "1", "5", "/", "2", "0", "2", "4", " ", "A", "D",
      "J", "U", "S", "T", "M", "E", "N", "T", " ", "$", "0", ".", "0",
      "0">>,
      \* 8: 01/15/2024 A #1 $5.75
      <<"0", "1", "/", "1", "5", "/", "2", "0", "2", "4", " ", "A", " ",
      "#", "1", " ", "$", "5", ".", "7", "5">>,
      \* 9: 01/15/2024 STARBUCKS SEATTLE WASHINGTON $5.75
      <<"0", "1", "/", "1", "5", "/", "2", "0", "2", "4", " ", "S", "T",
      "A", "R", "B", "U", "C", "K", "S", " ", "S", "E", "A", "T", "T", "L",
      "E", " ", "W", "A", "S", "H", "I", "N", "G", "T", "O", "N", " ", "$",
      "5", ".", "7", "5">>,
      \* 10: 01/15/2024 STARBUCKS SEATTLE WASH ST $5.75
      <<"0", "1", "/", "1", "5", "/", "2", "0", "2", "4", " ", "S", "T",
      "A", "R", "B", "U", "C", "K", "S", " ", "S", "E", "A", "T", "T", "L",
      "E", " ", "W", "A", "S", "H", " ", "S", "T", " ", "$", "5", ".", "7",
      "5">>,
      \* 11: 01/15/2024 SHELL OIL 40.00
      <<"0", "1", "/", "1", "5", "/", "2", "0", "2", "4", " ", "S", "H",
      "E", "L", "L", " ", "O", "I", "L", " ", "4", "0", ".", "0", "0">>,
      \* 12: 02/30/2024 SHELL OIL $40.00
      <<"0", "2", "/", "3", "0", "/", "2", "0", "2", "4", " ", "S", "H",
      "E", "L", "L", " ", "O", "I", "L", " ", "$", "4", "0", ".", "0",
      "0">>,
      \* 13: 01/15/2024 Date Description $1.00
      <<"0", "1", "/", "1", "5", "/", "2", "0", "2", "4", " ", "D", "a",
      "t", "e", " ", "D", "e", "s", "c", "r", "i", "p", "t", "i", "o", "n",
      " ", "$", "1", ".", "0", "0">>,
      \* 14: 01/15/2024 TRANSFER $100,000.00
      <<"0", "1", "/", "1", "5", "/", "2", "0", "2", "4", " ", "T", "R",
      "A", "N", "S", "F", "E", "R", " ", "$", "1", "0", "0", ",", "0", "0",
      "0", ".", "0", "0">>,
      \* 15: 01/16/2024 AMAZON MKTP CARD 1234 $25.00
      <<"0", "1", "/", "1", "6", "/", "2", "0", "2", "4", " ", "A", "M",
      "A", "Z", "O", "N", " ", "M", "K", "T", "P", " ", "C", "A", "R", "D",
      " ", "1", "2", "3", "4", " ", "$", "2", "5", ".", "0", "0">>,
      \* 16: 01/15/2024 BP $40.00 $1,194.56
      <<"0", "1", "/", "1", "5", "/", "2", "0", "2", "4", " ", "B", "P",
      " ", "$", "4", "0", ".", "0", "0", " ", "$", "1", ",", "1", "9", "4",
      ".", "5", "6">>
    >>

\* what the fifteen patterns match on the last line of the text: per line, in pattern
\* order, with the index of the match and the spans of its groups, counted
\* from the start of the line
ExecLast ==
    <<
      \* 1
      << [pattern |-> 1, index |-> 0, end |-> 47,
          date |-> <<0, 10>>, description |-> <<12, 39>>,
          amount |-> <<41, 47>>] >>,
      \* 2
      << [pattern |-> 4, index |-> 3, end |-> 37,
          date |-> <<3, 8>>, description |-> <<10, 30>>,
          amount |-> <<33, 37>>],
         [pattern |-> 6, index |-> 0, end |-> 44,
          date |-> <<0, 8>>, description |-> <<10, 30>>,
          amount |-> <<33, 37>>] >>,
      \* 3
      << [pattern |-> 1, index |-> 0, end |-> 29,
          date |-> <<0, 10>>, description |-> <<11, 22>>,
          amount |-> <<23, 29>>],
         [pattern |-> 2, index |-> 0, end |-> 29,
          date |-> <<0, 10>>, description |-> <<11, 22>>,
          amount |-> <<24, 29>>],
         [pattern |-> 10, index |-> 0, end |-> 29,
          date |-> <<0, 10>>, description |-> <<11, 22>>,
          amount |-> <<24, 29>>] >>,
      \* 4
      << [pattern |-> 1, index |-> 0, end |-> 29,
          date |-> <<0, 10>>, description |-> <<11, 22>>,
          amount |-> <<23, 29>>],
         [pattern |-> 2, index |-> 0, end |-> 29,
          date |-> <<0, 10>>, description |-> <<11, 22>>,
          amount |-> <<24, 29>>],
         [pattern |-> 10, index |-> 0, end |-> 29,
          date |-> <<0, 10>>, description |-> <<11, 22>>,
          amount |-> <<24, 29>>] >>,
      \* 5
      << [pattern |-> 1, index |-> 0, end |-> 35,
          date |-> <<0, 10>>, description |-> <<11, 25>>,
          amount |-> <<26, 35>>],
         [pattern |-> 2, index |-> 0, end |-> 35,
          date |-> <<0, 10>>, description |-> <<11, 25>>,
          amount |-> <<27, 35>>],
         [pattern |-> 10, index |-> 0, end |-> 35,
          date |-> <<0, 10>>, description |-> <<11, 25>>,
          amount |-> <<27, 35>>] >>,
      \* 6
      << [pattern |-> 1, index |-> 0, end |-> 31,
          date |-> <<0, 10>>, description |-> <<11, 19>>,
          amount |-> <<20, 31>>],
         [pattern |-> 2, index |-> 0, end |-> 31,
          date |-> <<0, 10>>, description |-> <<11, 19>>,
          amount |-> <<21, 31>>],
         [pattern |-> 10, index |-> 0, end |-> 31,
          date |-> <<0, 10>>, description |-> <<11, 19>>,
          amount |-> <<21, 31>>] >>,
      \* 7
      << [pattern |-> 1, index |-> 0, end |-> 27,
          date |-> <<0, 10>>, description |-> <<11, 21>>,
          amount |-> <<22, 27>>],
         [pattern |-> 2, index |-> 0, end |-> 27,
          date |-> <<0, 10>>, description |-> <<11, 21>>,
          amount |-> <<23, 27>>],
         [pattern |-> 10, index |-> 0, end |-> 27,
          date |-> <<0, 10>>, description |-> <<11, 21>>,
          amount |-> <<23, 27>>] >>,
      \* 8
      << [pattern |-> 1, index |-> 0, end |-> 21,
          date |-> <<0, 10>>, description |-> <<11, 15>>,
          amount |-> <<16, 21>>],
         [pattern |-> 2, index |-> 0, end |-> 21,
          date |-> <<0, 10>>, description |-> <<11, 15>>,
          amount |-> <<17, 21>>],
         [pattern |-> 10, index |-> 0, end |-> 21,
          date |-> <<0, 10>>, description |-> <<11, 15>>,
          amount |-> <<17, 21>>] >>,
      \* 9
      << [pattern |-> 1, index |-> 0, end |-> 45,
          date |-> <<0, 10>>, description |-> <<11, 39>>,
          amount |-> <<40, 45>>],
         [pattern |-> 2, index |-> 0, end |-> 45,
          date |-> <<0, 10>>, description |-> <<11, 39>>,
          amount |-> <<41, 45>>],
         [pattern |-> 10, index |-> 0, end |-> 45,
          date |-> <<0, 10>>, description |-> <<11, 39>>,
          amount |-> <<41, 45>>] >>,
      \* 10
      << [pattern |-> 1, index |-> 0, end |-> 42,
          date |-> <<0, 10>>, description |-> <<11, 36>>,
          amount |-> <<37, 42>>],
         [pattern |-> 2, index |-> 0, end |-> 42,
          date |-> <<0, 10>>, description |-> <<11, 36>>,
          amount |-> <<38, 42>>],
         [pattern |-> 10, index |-> 0, end |-> 42,
          date |-> <<0, 10>>, description |-> <<11, 36>>,
          amount |-> <<38, 42>>] >>,
      \* 11
      << [pattern |-> 2, index |-> 0, end |-> 26,
          date |-> <<0, 10>>, description |-> <<11, 20>>,
          amount |-> <<21, 26>>],
         [pattern |-> 5, index |-> 0, end |-> 26,
          date |-> <<0, 10>>, description |-> <<11, 20>>,
          amount |-> <<21, 26>>],
         [pattern |-> 7, index |-> 0, end |-> 26,
          date |-> <<0, 10>>, description |-> <<11, 20>>,
          amount |-> <<21, 26>>],
         [pattern |-> 10, index |-> 0, end |-> 26,
          date |-> <<0, 10>>, description |-> <<11, 20>>,
          amount |-> <<21, 26>>] >>,
      \* 12
      << [pattern |-> 1, index |-> 0, end |-> 27,
          date |-> <<0, 10>>, description |-> <<11, 20>>,
          amount |-> <<21, 27>>],
         [pattern |-> 2, index |-> 0, end |-> 27,
          date |-> <<0, 10>>, description |-> <<11, 20>>,
          amount |-> <<22, 27>>],
         [pattern |-> 10, index |-> 0, end |-> 27,
          date |-> <<0, 10>>, description |-> <<11, 20>>,
          amount |-> <<22, 27>>] >>,
      \* 13
      << [pattern |-> 1, index |-> 0, end |-> 33,
          date |-> <<0, 10>>, description |-> <<11, 27>>,
          amount |-> <<28, 33>>],
         [pattern |-> 2, index |-> 0, end |-> 33,
          date |-> <<0, 10>>, description |-> <<11, 27>>,
          amount |-> <<29, 33>>],
         [pattern |-> 10, index |-> 0, end |-> 33,
          date |-> <<0, 10>>, description |-> <<11, 27>>,
          amount |-> <<29, 33>>] >>,
      \* 14
      << [pattern |-> 1, index |-> 0, end |-> 31,
          date |-> <<0, 10>>, description |-> <<11, 19>>,
          amount |-> <<20, 31>>],
         [pattern |-> 2, index |-> 0, end |-> 31,
          date |-> <<0, 10>>, description |-> <<11, 19>>,
          amount |-> <<21, 31>>],
         [pattern |-> 10, index |-> 0, end |-> 31,
          date |-> <<0, 10>>, description |-> <<11, 19>>,
          amount |-> <<21, 31>>] >>,
      \* 15
      << [pattern |-> 1, index |-> 0, end |-> 39,
          date |-> <<0, 10>>, description |-> <<11, 32>>,
          amount |-> <<33, 39>>],
         [pattern |-> 2, index |-> 0, end |-> 39,
          date |-> <<0, 10>>, description |-> <<11, 22>>,
          amount |-> <<34, 39>>],
         [pattern |-> 10, index |-> 0, end |-> 39,
          date |-> <<0, 10>>, description |-> <<11, 32>>,
          amount |-> <<34, 39>>] >>,
      \* 16
      << [pattern |-> 1, index |-> 0, end |-> 20,
          date |-> <<0, 10>>, description |-> <<11, 13>>,
          amount |-> <<14, 20>>],
         [pattern |-> 2, index |-> 0, end |-> 20,
          date |-> <<0, 10>>, description |-> <<11, 13>>,
          amount |-> <<15, 20>>],
         [pattern |-> 6, index |-> 0, end |-> 21,
          date |-> <<0, 10>>, description |-> <<11, 13>>,
          amount |-> <<15, 20>>],
         [pattern |-> 10, index |-> 0, end |-> 30,
          date |-> <<0, 10>>, description |-> <<11, 20>>,
          amount |-> <<22, 30>>] >>
    >>

\* what the fifteen patterns match on a line that another line follows: per line, in pattern
\* order, with the index of the match and the spans of its groups, counted
\* from the start of the line
ExecFollowed ==
    <<
      \* 1
      << [pattern |-> 1, index |-> 0, end |-> 47,
          date |-> <<0, 10>>, description |-> <<12, 39>>,
          amount |-> <<41, 47>>] >>,
      \* 2
      << [pattern |-> 4, index |-> 3, end |-> 37,
          date |-> <<3, 8>>, description |-> <<10, 30>>,
          amount |-> <<33, 37>>],
         [pattern |-> 6, index |-> 0, end |-> 44,
          date |-> <<0, 8>>, description |-> <<10, 30>>,
          amount |-> <<33, 37>>] >>,
      \* 3
      << [pattern |-> 1, index |-> 0, end |-> 29,
          date |-> <<0, 10>>, description |-> <<11, 22>>,
          amount |-> <<23, 29>>],
         [pattern |-> 2, index |-> 0, end |-> 29,
          date |-> <<0, 10>>, description |-> <<11, 22>>,
          amount |-> <<24, 29>>],
         [pattern |-> 6, index |-> 0, end |-> 30,
          date |-> <<0, 10>>, description |-> <<11, 22>>,
          amount |-> <<24, 29>>],
         [pattern |-> 10, index |-> 0, end |-> 29,
          date |-> <<0, 10>>, description |-> <<11, 22>>,
          amount |-> <<24, 29>>] >>,
      \* 4
      << [pattern |-> 1, index |-> 0, end |-> 29,
          date |-> <<0, 10>>, description |-> <<11, 22>>,
          amount |-> <<23, 29>>],
         [pattern |-> 2, index |-> 0, end |-> 29,
          date |-> <<0, 10>>, description |-> <<11, 22>>,
          amount |-> <<24, 29>>],
         [pattern |-> 6, index |-> 0, end |-> 30,
          date |-> <<0, 10>>, description |-> <<11, 22>>,
          amount |-> <<24, 29>>],
         [pattern |-> 10, index |-> 0, end |-> 29,
          date |-> <<0, 10>>, description |-> <<11, 22>>,
          amount |-> <<24, 29>>] >>,
      \* 5
      << [pattern |-> 1, index |-> 0, end |-> 35,
          date |-> <<0, 10>>, description |-> <<11, 25>>,
          amount |-> <<26, 35>>],
         [pattern |-> 2, index |-> 0, end |-> 35,
          date |-> <<0, 10>>, description |-> <<11, 25>>,
          amount |-> <<27, 35>>],
         [pattern |-> 6, index |-> 0, end |-> 36,
          date |-> <<0, 10>>, description |-> <<11, 25>>,
          amount |-> <<27, 35>>],
         [pattern |-> 10, index |-> 0, end |-> 35,
          date |-> <<0, 10>>, description |-> <<11, 25>>,
          amount |-> <<27, 35>>] >>,
      \* 6
      << [pattern |-> 1, index |-> 0, end |-> 31,
          date |-> <<0, 10>>, description |-> <<11, 19>>,
          amount |-> <<20, 31>>],
         [pattern |-> 2, index |-> 0, end |-> 31,
          date |-> <<0, 10>>, description |-> <<11, 19>>,
          amount |-> <<21, 31>>],
         [pattern |-> 6, index |-> 0, end |-> 32,
          date |-> <<0, 10>>, description |-> <<11, 19>>,
          amount |-> <<21, 31>>],
         [pattern |-> 10, index |-> 0, end |-> 31,
          date |-> <<0, 10>>, description |-> <<11, 19>>,
          amount |-> <<21, 31>>] >>,
      \* 7
      << [pattern |-> 1, index |-> 0, end |-> 27,
          date |-> <<0, 10>>, description |-> <<11, 21>>,
          amount |-> <<22, 27>>],
         [pattern |-> 2, index |-> 0, end |-> 27,
          date |-> <<0, 10>>, description |-> <<11, 21>>,
          amount |-> <<23, 27>>],
         [pattern |-> 6, index |-> 0, end |-> 28,
          date |-> <<0, 10>>, description |-> <<11, 21>>,
          amount |-> <<23, 27>>],
         [pattern |-> 10, index |-> 0, end |-> 27,
          date |-> <<0, 10>>, description |-> <<11, 21>>,
          amount |-> <<23, 27>>] >>,
      \* 8
      << [pattern |-> 1, index |-> 0, end |-> 21,
          date |-> <<0, 10>>, description |-> <<11, 15>>,
          amount |-> <<16, 21>>],
         [pattern |-> 2, index |-> 0, end |-> 21,
          date |-> <<0, 10>>, description |-> <<11, 15>>,
          amount |-> <<17, 21>>],
         [pattern |-> 6, index |-> 0, end |-> 22,
          date |-> <<0, 10>>, description |-> <<11, 15>>,
          amount |-> <<17, 21>>],
         [pattern |-> 10, index |-> 0, end |-> 21,
          date |-> <<0, 10>>, description |-> <<11, 15>>,
          amount |-> <<17, 21>>] >>,
      \* 9
      << [pattern |-> 1, index |-> 0, end |-> 45,
          date |-> <<0, 10>>, description |-> <<11, 39>>,
          amount |-> <<40, 45>>],
         [pattern |-> 2, index |-> 0, end |-> 45,
          date |-> <<0, 10>>, description |-> <<11, 39>>,
          amount |-> <<41, 45>>],
         [pattern |-> 6, index |-> 0, end |-> 46,
          date |-> <<0, 10>>, description |-> <<11, 39>>,
          amount |-> <<41, 45>>],
         [pattern |-> 10, index |-> 0, end |-> 45,
          date |-> <<0, 10>>, description |-> <<11, 39>>,
          amount |-> <<41, 45>>] >>,
      \* 10
      << [pattern |-> 1, index |-> 0, end |-> 42,
          date |-> <<0, 10>>, description |-> <<11, 36>>,
          amount |-> <<37, 42>>],
         [pattern |-> 2, index |-> 0, end |-> 42,
          date |-> <<0, 10>>, description |-> <<11, 36>>,
          amount |-> <<38, 42>>],
         [pattern |-> 6, index |-> 0, end |-> 43,
          date |-> <<0, 10>>, description |-> <<11, 36>>,
          amount |-> <<38, 42>>],
         [pattern |-> 10, index |-> 0, end |-> 42,
          date |-> <<0, 10>>, description |-> <<11, 36>>,
          amount |-> <<38, 42>>] >>,
      \* 11
      << [pattern |-> 2, index |-> 0, end |-> 26,
          date |-> <<0, 10>>, description |-> <<11, 20>>,
          amount |-> <<21, 26>>],
         [pattern |-> 5, index |-> 0, end |-> 26,
          date |-> <<0, 10>>, description |-> <<11, 20>>,
          amount |-> <<21, 26>>],
         [pattern |-> 6, index |-> 0, end |-> 27,
          date |-> <<0, 10>>, description |-> <<11, 20>>,
          amount |-> <<21, 26>>],
         [pattern |-> 7, index |-> 0, end |-> 26,
          date |-> <<0, 10>>, description |-> <<11, 20>>,
          amount |-> <<21, 26>>],
         [pattern |-> 10, index |-> 0, end |-> 26,
          date |-> <<0, 10>>, description |-> <<11, 20>>,
          amount |-> <<21, 26>>] >>,
      \* 12
      << [pattern |-> 1, index |-> 0, end |-> 27,
          date |-> <<0, 10>>, description |-> <<11, 20>>,
          amount |-> <<21, 27>>],
         [pattern |-> 2, index |-> 0, end |-> 27,
          date |-> <<0, 10>>, description |-> <<11, 20>>,
          amount |-> <<22, 27>>],
         [pattern |-> 6, index |-> 0, end |-> 28,
          date |-> <<0, 10>>, description |-> <<11, 20>>,
          amount |-> <<22, 27>>],
         [pattern |-> 10, index |-> 0, end |-> 27,
          date |-> <<0, 10>>, description |-> <<11, 20>>,
          amount |-> <<22, 27>>] >>,
      \* 13
      << [pattern |-> 1, index |-> 0, end |-> 33,
          date |-> <<0, 10>>, description |-> <<11, 27>>,
          amount |-> <<28, 33>>],
         [pattern |-> 2, index |-> 0, end |-> 33,
          date |-> <<0, 10>>, description |-> <<11, 27>>,
          amount |-> <<29, 33>>],
         [pattern |-> 6, index |-> 0, end |-> 34,
          date |-> <<0, 10>>, description |-> <<11, 27>>,
          amount |-> <<29, 33>>],
         [pattern |-> 10, index |-> 0, end |-> 33,
          date |-> <<0, 10>>, description |-> <<11, 27>>,
          amount |-> <<29, 33>>] >>,
      \* 14
      << [pattern |-> 1, index |-> 0, end |-> 31,
          date |-> <<0, 10>>, description |-> <<11, 19>>,
          amount |-> <<20, 31>>],
         [pattern |-> 2, index |-> 0, end |-> 31,
          date |-> <<0, 10>>, description |-> <<11, 19>>,
          amount |-> <<21, 31>>],
         [pattern |-> 6, index |-> 0, end |-> 32,
          date |-> <<0, 10>>, description |-> <<11, 19>>,
          amount |-> <<21, 31>>],
         [pattern |-> 10, index |-> 0, end |-> 31,
          date |-> <<0, 10>>, description |-> <<11, 19>>,
          amount |-> <<21, 31>>] >>,
      \* 15
      << [pattern |-> 1, index |-> 0, end |-> 39,
          date |-> <<0, 10>>, description |-> <<11, 32>>,
          amount |-> <<33, 39>>],
         [pattern |-> 2, index |-> 0, end |-> 39,
          date |-> <<0, 10>>, description |-> <<11, 22>>,
          amount |-> <<34, 39>>],
         [pattern |-> 6, index |-> 0, end |-> 40,
          date |-> <<0, 10>>, description |-> <<11, 32>>,
          amount |-> <<34, 39>>],
         [pattern |-> 10, index |-> 0, end |-> 39,
          date |-> <<0, 10>>, description |-> <<11, 32>>,
          amount |-> <<34, 39>>] >>,
      \* 16
      << [pattern |-> 1, index |-> 0, end |-> 20,
          date |-> <<0, 10>>, description |-> <<11, 13>>,
          amount |-> <<14, 20>>],
         [pattern |-> 2, index |-> 0, end |-> 20,
          date |-> <<0, 10>>, description |-> <<11, 13>>,
          amount |-> <<15, 20>>],
         [pattern |-> 6, index |-> 0, end |-> 21,
          date |-> <<0, 10>>, description |-> <<11, 13>>,
          amount |-> <<15, 20>>],
         [pattern |-> 10, index |-> 0, end |-> 30,
          date |-> <<0, 10>>, description |-> <<11, 20>>,
          amount |-> <<22, 30>>] >>
    >>

\* the array pattern.exec returns for a match on a line: [rawMatch, dateStr,
\* descriptionRaw, amountStr], with match.index counted from the start of the
\* line.  The text is normalized (text.replace(/\r\n/g, "\n") and so on): a
\* line that another follows ends in one "\n", and no match reaches past it.
ExecOnLine(line, followed, m) ==
    LET s == IF followed THEN StatementLines[line] \o <<"\n">>
             ELSE StatementLines[line]
    IN  [ pattern |-> m.pattern,
          index |-> m.index,
          rawMatch |-> Substring(s, m.index, m.end),
          dateStr |-> Substring(s, m.date[1], m.date[2]),
          descriptionRaw |-> Substring(s, m.description[1], m.description[2]),
          amountStr |-> Substring(s, m.amount[1], m.amount[2]) ]

ExecResultsLast ==
    [ line \in 1..Len(StatementLines) |->
        [ i \in 1..Len(ExecLast[line]) |->
            ExecOnLine(line, FALSE, ExecLast[line][i]) ] ]

ExecResultsFollowed ==
    [ line \in 1..Len(StatementLines) |->
        [ i \in 1..Len(ExecFollowed[line]) |->
            ExecOnLine(line, TRUE, ExecFollowed[line][i]) ] ]

\* every match the patterns can return on a text of these lines
Candidates ==
    UNION { { ExecResultsLast[line][i] : i \in 1..Len(ExecLast[line]) } \cup
            { ExecResultsFollowed[line][i] : i \in 1..Len(ExecFollowed[line]) } :
            line \in 1..Len(StatementLines) }

\* the functions of the loop body, tabulated over what the patterns capture
CleanedDescription ==
    [ d \in { c.descriptionRaw : c \in Candidates } |-> cleanDescription(d) ]

ParsedAmount ==
    [ a \in { c.amountStr : c \in Candidates } |-> parseAmount(a) ]

HitsSkipKeyword ==
    [ r \in { c.rawMatch : c \in Candidates } |-> MatchesSkipKeyword(r) ]

NormalizedDate ==
    [ d \in { c.dateStr : c \in Candidates }, now \in Todays, eng \in Engines |->
        normalizeDate(d, now, eng) ]

\* where line k starts in the normalized text, counted from 0
RECURSIVE LineStart(_, _)
LineStart(t, k) ==
    IF k = 1 THEN 0
    ELSE LineStart(t, k - 1) + Len(StatementLines[t[k - 1]]) + 1

LineMatches(t, k) ==
    IF k = Len(t) THEN ExecResultsLast[t[k]] ELSE ExecResultsFollowed[t[k]]

\* the while loop of one pattern: its matches from the start of the text on
RECURSIVE ExecPattern(_, _, _)
ExecPattern(t, p, k) ==
    IF k > Len(t) THEN <<>>
    ELSE LET found == SelectSeq(LineMatches(t, k), LAMBDA m : m.pattern = p)
         IN  [ i \in 1..Len(found) |->
                 [ found[i] EXCEPT !.index = @ + LineStart(t, k) ] ]
             \o ExecPattern(t, p, k + 1)

\* the for loop over orderedPatterns, from pattern p on
RECURSIVE ExecOrdered(_, _)
ExecOrdered(t, p) ==
    IF p > NumPatterns THEN <<>>
    ELSE ExecPattern(t, p, 1) \o ExecOrdered(t, p + 1)

AmountRejected_NoCap(amt) == amt.isNaN \/ amt.cents <= 0

\* isNaN(amount) || amount <= 0 || amount > 100000
AmountRejected(amt) ==
    amt.isNaN \/ amt.cents <= 0 \/ amt.cents > Cents(MaxAmount)

\* the continue statements of the loop body, in order
Skips(match, ranges, now, eng) ==
    LET matchStart == match.index
        matchEnd == match.index + Len(match.rawMatch)
        description == CleanedDescription[match.descriptionRaw]
    IN  \/ isOverlapping(ranges, matchStart, matchEnd)
        \/ HitsSkipKeyword[match.rawMatch]
        \/ description = <<>> \/ Len(description) < MinDescriptionLength
        \/ LooksLikeHeader(description)
        \/ AmountRejected(ParsedAmount[match.amountStr])
        \/ ~isValidISODate(NormalizedDate[match.dateStr, now, eng], eng)

Texts ==
    UNION { [1..n -> 1..Len(StatementLines)] : n \in 0..MaxLines }

\* a call of parseStatementText
ParseInit ==
    /\ op = "parse"
    /\ text \in Texts
    /\ today \in Todays
    /\ engine \in Engines
    /\ startDate = NoDate
    /\ frequency = "daily"
    /\ zone = "east"
    /\ history = <<>>
    /\ amount = 0
    /\ cleanDays = <<>>
    /\ dateStr = NoDate
    /\ aggPortfolio = <<>>
    /\ LaterIdle
    /\ Idle

CallParse ==
    /\ op = "parse"
    /\ pc = "ready"
    /\ pc' = "loop"
    /\ idx' = 1
    /\ matches' = ExecOrdered(text, 1)
    /\ matchedRanges' = <<>>
    /\ transactions' = <<>>
    /\ accepted' = <<>>
    /\ UNCHANGED <<dcaVars, aggVars, laterVars, text, today, engine, result>>

\* one turn of the while loop
ParseMatch ==
    /\ op = "parse"
    /\ pc = "loop"
    /\ idx <= Len(matches)
    /\ LET match == matches[idx]
       IN  IF Skips(match, matchedRanges, today, engine)
           THEN UNCHANGED <<matchedRanges, transactions, accepted>>
           ELSE /\ matchedRanges' =
                       Append(matchedRanges,
                              [ start |-> match.index,
                                end |-> match.index + Len(match.rawMatch) ])
                /\ transactions' =
                       Append(transactions,
                              [ date |->
                                    NormalizedDate[match.dateStr, today, engine],
                                description |->
                                    CleanedDescription[match.descriptionRaw],
                                amount |-> ParsedAmount[match.amountStr].cents,
                                rawMatch |-> match.rawMatch ])
                /\ accepted' = Append(accepted, idx)
    /\ idx' = idx + 1
    /\ UNCHANGED <<dcaVars, aggVars, laterVars, text, today, engine, matches, pc, result>>

\* the loops are over: deduplicate, sort, return
ParseReturn ==
    /\ op = "parse"
    /\ pc = "loop"
    /\ idx > Len(matches)
    /\ result' = SortByDate(deduplicateTransactions(transactions))
    /\ pc' = "done"
    /\ UNCHANGED <<dcaVars, aggVars, laterVars, parseVars, idx>>

ParseNext ==
    \/ CallParse
    \/ ParseMatch
    \/ ParseReturn

ParseSpec == ParseInit /\ [][ParseNext]_vars

(***************************************************************************)
(* categorizeTransactions and detectViceCategory (src/unnamed/part_003).   *)
(***************************************************************************)
MaxTransactions == 2

\* VICE_KEYWORDS, in the order Object.entries lists it
VICE_KEYWORDS ==
    <<
      \* smoking
      [ key |-> <<"s", "m", "o", "k", "i", "n", "g">>,
        keywords |-> <<
          <<"t", "o", "b", "a", "c", "c", "o">>,
          <<"c", "i", "g", "a", "r", "e", "t", "t", "e">>,
          <<"c", "i", "g", "a", "r", "e", "t", "t", "e", "s">>,
          <<"v", "a", "p", "e">>,
          <<"v", "a", "p", "i", "n", "g">>,
          <<"j", "u", "u", "l">>,
          <<"m", "a", "r", "l", "b", "o", "r", "o">>,
          <<"c", "a", "m", "e", "l">>,
          <<"n", "e", "w", "p", "o", "r", "t">>,
          <<"s", "m", "o", "k", "e", " ", "s", "h", "o", "p">>,
          <<"s", "m", "o", "k", "e", "s", "h", "o", "p">>,
          <<"c", "i", "g", "a", "r">>,
          <<"e", "-", "c", "i", "g">>,
          <<"n", "i", "c", "o", "t", "i", "n", "e">>,
          <<"p", "u", "f", "f", " ", "b", "a", "r">>,
          <<"b", "l", "u", " ", "c", "i", "g", "s">>
        >> ],
      \* alcohol
      [ key |-> <<"a", "l", "c", "o", "h", "o", "l">>,
        keywords |-> <<
          <<"l", "i", "q", "u", "o", "r">>,
          <<"b", "a", "r">>,
          <<"p", "u", "b">>,
          <<"b", "r", "e", "w", "e", "r", "y">>,
          <<"w", "i", "n", "e">>,
          <<"b", "e", "e", "r">>,
          <<"s", "p", "i", "r", "i", "t", "s">>,
          <<"t", "o", "t", "a", "l", " ", "w", "i", "n", "e">>,
          <<"b", "e", "v", "m", "o">>,
          <<"s", "p", "e", "c", "'", "s">>,
          <<"a", "b", "c", " ", "s", "t", "o", "r", "e">>,
          <<"t", "a", "v", "e", "r", "n">>,
          <<"s", "a", "l", "o", "o", "n">>,
          <<"n", "i", "g", "h", "t", "c", "l", "u", "b">>,
          <<"c", "l", "u", "b">>,
          <<"l", "o", "u", "n", "g", "e">>,
          <<"c", "o", "c", "k", "t", "a", "i", "l">>,
          <<"w", "h", "i", "s", "k", "e", "y">>,
          <<"v", "o", "d", "k", "a">>
        >> ],
      \* gambling
      [ key |-> <<"g", "a", "m", "b", "l", "i", "n", "g">>,
        keywords |-> <<
          <<"c", "a", "s", "i", "n", "o">>,
          <<"d", "r", "a", "f", "t", "k", "i", "n", "g", "s">>,
          <<"f", "a", "n", "d", "u", "e", "l">>,
          <<"b", "e", "t", "3", "6", "5">>,
          <<"b", "e", "t", "m", "g", "m">>,
          <<"p", "o", "k", "e", "r">>,
          <<"l", "o", "t", "t", "e", "r", "y">>,
          <<"l", "o", "t", "t", "o">>,
          <<"s", "l", "o", "t", "s">>,
          <<"w", "a", "g", "e", "r">>,
          <<"s", "p", "o", "r", "t", "s", "b", "o", "o", "k">>,
          <<"b", "o", "v", "a", "d", "a">>,
          <<"g", "a", "m", "b", "l", "i", "n", "g">>,
          <<"b", "e", "t", " ">>,
          <<"b", "e", "t", "t", "i", "n", "g">>,
          <<"s", "t", "a", "k", "e">>,
          <<"p", "o", "k", "e", "r", "s", "t", "a", "r", "s">>
        >> ],
      \* coffee
      [ key |-> <<"c", "o", "f", "f", "e", "e">>,
        keywords |-> <<
          <<"s", "t", "a", "r", "b", "u", "c", "k", "s">>,
          <<"d", "u", "n", "k", "i", "n">>,
          <<"c", "o", "f", "f", "e", "e">>,
          <<"c", "a", "f", "e">>,
          <<"e", "s", "p", "r", "e", "s", "s", "o">>,
          <<"l", "a", "t", "t", "e">>,
          <<"p", "e", "e", "t", "s">>,
          <<"d", "u", "t", "c", "h", " ", "b", "r", "o", "s">>,
          <<"c", "a", "r", "i", "b", "o", "u">>,
          <<"t", "i", "m", " ", "h", "o", "r", "t", "o", "n">>,
          <<"b", "l", "u", "e", " ", "b", "o", "t", "t", "l", "e">>,
          <<"p", "h", "i", "l", "z">>,
          <<"i", "n", "t", "e", "l", "l", "i", "g", "e", "n", "t", "s", "i",
            "a">>,
          <<"c", "o", "u", "n", "t", "e", "r", " ", "c", "u", "l", "t", "u",
            "r", "e">>,
          <<"r", "o", "a", "s", "t", "e", "r", "s">>
        >> ],
      \* fastFood
      [ key |-> <<"f", "a", "s", "t", "F", "o", "o", "d">>,
        keywords |-> <<
          <<"m", "c", "d", "o", "n", "a", "l", "d">>,
          <<"b", "u", "r", "g", "e", "r", " ", "k", "i", "n", "g">>,
          <<"w", "e", "n", "d", "y">>,
          <<"t", "a", "c", "o", " ", "b", "e", "l", "l">>,
          <<"c", "h", "i", "c", "k", "-", "f", "i", "l", "-", "a">>,
          <<"k", "f", "c">>,
          <<"p", "o", "p", "e", "y", "e", "s">>,
          <<"a", "r", "b", "y">>,
          <<"s", "o", "n", "i", "c">>,
          <<"j", "a", "c", "k", " ", "i", "n", " ", "t", "h", "e", " ", "b",
            "o", "x">>,
          <<"s", "u", "b", "w", "a", "y">>,
          <<"c", "h", "i", "p", "o", "t", "l", "e">>,
          <<"f", "i", "v", "e", " ", "g", "u", "y", "s">>,
          <<"i", "n", "-", "n", "-", "o", "u", "t">>,
          <<"w", "h", "a", "t", "a", "b", "u", "r", "g", "e", "r">>,
          <<"c", "a", "r", "l", "'", "s", " ", "j", "r">>,
          <<"h", "a", "r", "d", "e", "e">>,
          <<"p", "a", "n", "d", "a", " ", "e", "x", "p", "r", "e", "s", "s">>,
          <<"d", "e", "l", " ", "t", "a", "c", "o">>,
          <<"w", "h", "i", "t", "e", " ", "c", "a", "s", "t", "l", "e">>
        >> ],
      \* cannabis
      [ key |-> <<"c", "a", "n", "n", "a", "b", "i", "s">>,
        keywords |-> <<
          <<"d", "i", "s", "p", "e", "n", "s", "a", "r", "y">>,
          <<"c", "a", "n", "n", "a", "b", "i", "s">>,
          <<"m", "a", "r", "i", "j", "u", "a", "n", "a">>,
          <<"w", "e", "e", "d">>,
          <<"p", "o", "t", " ", "s", "h", "o", "p">>,
          <<"4", "2", "0">>,
          <<"l", "e", "a", "f", "l", "y">>,
          <<"w", "e", "e", "d", "m", "a", "p", "s">>,
          <<"g", "r", "e", "e", "n", "l", "e", "a", "f">>,
          <<"h", "e", "r", "b", "a", "l">>,
          <<"m", "e", "d", "m", "e", "n">>
        >> ],
      \* shopping
      [ key |-> <<"s", "h", "o", "p", "p", "i", "n", "g">>,
        keywords |-> <<
          <<"a", "m", "a", "z", "o", "n">>,
          <<"t", "a", "r", "g", "e", "t">>,
          <<"w", "a", "l", "m", "a", "r", "t">>,
          <<"c", "o", "s", "t", "c", "o">>,
          <<"b", "e", "s", "t", " ", "b", "u", "y">>,
          <<"m", "a", "c", "y", "s">>,
          <<"n", "o", "r", "d", "s", "t", "r", "o", "m">>,
          <<"s", "e", "p", "h", "o", "r", "a">>,
          <<"u", "l", "t", "a">>,
          <<"a", "p", "p", "l", "e", " ", "s", "t", "o", "r", "e">>,
          <<"n", "i", "k", "e">>,
          <<"a", "d", "i", "d", "a", "s">>,
          <<"z", "a", "r", "a">>,
          <<"h", "&", "m">>,
          <<"f", "o", "r", "e", "v", "e", "r", " ", "2", "1">>,
          <<"u", "r", "b", "a", "n", " ", "o", "u", "t", "f", "i", "t", "t",
            "e", "r", "s">>
        >> ],
      \* subscriptions
      [ key |-> <<"s", "u", "b", "s", "c", "r", "i", "p", "t", "i", "o", "n", "s">>,
        keywords |-> <<
          <<"n", "e", "t", "f", "l", "i", "x">>,
          <<"s", "p", "o", "t", "i", "f", "y">>,
          <<"h", "u", "l", "u">>,
          <<"d", "i", "s", "n", "e", "y", "+">>,
          <<"h", "b", "o", " ", "m", "a", "x">>,
          <<"p", "a", "r", "a", "m", "o", "u", "n", "t">>,
          <<"a", "p", "p", "l", "e", " ", "t", "v">>,
          <<"y", "o", "u", "t", "u", "b", "e", " ", "p", "r", "e", "m", "i",
            "u", "m">>,
          <<"a", "m", "a", "z", "o", "n", " ", "p", "r", "i", "m", "e">>,
          <<"a", "u", "d", "i", "b", "l", "e">>,
          <<"c", "r", "u", "n", "c", "h", "y", "r", "o", "l", "l">>,
          <<"p", "e", "a", "c", "o", "c", "k">>,
          <<"e", "s", "p", "n">>,
          <<"s", "h", "o", "w", "t", "i", "m", "e">>,
          <<"d", "i", "s", "c", "o", "v", "e", "r", "y", "+">>,
          <<"a", "c", "o", "r", "n", "s">>
        >> ],
      \* delivery
      [ key |-> <<"d", "e", "l", "i", "v", "e", "r", "y">>,
        keywords |-> <<
          <<"d", "o", "o", "r", "d", "a", "s", "h">>,
          <<"u", "b", "e", "r", " ", "e", "a", "t", "s">>,
          <<"g", "r", "u", "b", "h", "u", "b">>,
          <<"p", "o", "s", "t", "m", "a", "t", "e", "s">>,
          <<"i", "n", "s", "t", "a", "c", "a", "r", "t">>,
          <<"s", "e", "a", "m", "l", "e", "s", "s">>,
          <<"c", "a", "v", "i", "a", "r">>,
          <<"d", "e", "l", "i", "v", "e", "r", "y", ".", "c", "o", "m">>,
          <<"f", "a", "v", "o", "r">>,
          <<"g", "o", "p", "u", "f", "f">>
        >> ]
    >>

\* the transactions a statement can hold: date, description and amount in
\* cents (rawMatch is not read by the categorizers)
StatementTransactions ==
    {
      \* NETFLIX.COM
      [ date |-> <<2024, 1, 14>>, amount |-> 1500,
        description |->
          <<"N", "E", "T", "F", "L", "I", "X", ".", "C", "O", "M">> ],
      \* STARBUCKS SEATTLE WA
      [ date |-> <<2024, 1, 15>>, amount |-> 500,
        description |->
          <<"S", "T", "A", "R", "B", "U", "C", "K", "S", " ", "S", "E", "A", "T", "T", "L", "E", " ", "W", "A">> ],
      \* Starbucks Seattle WA
      [ date |-> <<2024, 1, 15>>, amount |-> 1500,
        description |->
          <<"S", "t", "a", "r", "b", "u", "c", "k", "s", " ", "S", "e", "a", "t", "t", "l", "e", " ", "W", "A">> ],
      \* MCDONALD'S
      [ date |-> <<2024, 1, 15>>, amount |-> 850,
        description |->
          <<"M", "C", "D", "O", "N", "A", "L", "D", "'", "S">> ],
      \* AMAZON PRIME
      [ date |-> <<2024, 1, 16>>, amount |-> 1500,
        description |->
          <<"A", "M", "A", "Z", "O", "N", " ", "P", "R", "I", "M", "E">> ],
      \* SHELL OIL
      [ date |-> <<2024, 1, 15>>, amount |-> 4000,
        description |->
          <<"S", "H", "E", "L", "L", " ", "O", "I", "L">> ],
      \* (empty description)
      [ date |-> <<2024, 1, 15>>, amount |-> 100,
        description |->
          <<>> ]
    }

Statements ==
    UNION { [1..n -> StatementTransactions] : n \in 0..MaxTransactions }

CategoryKeys == { VICE_KEYWORDS[i].key : i \in 1..Len(VICE_KEYWORDS) }

\* what a caller can pass as viceType: the keys, a key in another case, and
\* a string that is no key
ViceTypes ==
    CategoryKeys \cup { <<"C", "o", "f", "f", "e", "e">>, <<"u", "n", "k", "n", "o", "w", "n">> }

\* VICE_KEYWORDS[key]; <<>> stands for undefined, which the caller treats as
\* it treats an empty list
LookupKeywords(key) ==
    IF \E i \in 1..Len(VICE_KEYWORDS) : VICE_KEYWORDS[i].key = key
    THEN VICE_KEYWORDS[CHOOSE i \in 1..Len(VICE_KEYWORDS) :
                           VICE_KEYWORDS[i].key = key].keywords
    ELSE <<>>

\* the filter callback: description present, and
\* keywords.some((kw) => descLower.includes(kw.toLowerCase()))
MatchesKeywords(t, keywords) ==
    /\ t.description # <<>>
    /\ LET descLower == toLowerCase(t.description)
       IN  \E i \in 1..Len(keywords) :
               Contains(descLower, toLowerCase(keywords[i]))

categorizeTransactions(ts, type) ==
    LET keywords == LookupKeywords(toLowerCase(type))
    IN  IF keywords = <<>> THEN <<>>
        ELSE SelectSeq(ts, LAMBDA t : MatchesKeywords(t, keywords))

\* matches.reduce((sum, t) => sum + t.amount, 0)
RECURSIVE SumAmounts(_)
SumAmounts(ts) ==
    IF ts = <<>> THEN 0 ELSE Head(ts).amount + SumAmounts(Tail(ts))

InsertByTotal_Ascending(sorted, e) ==
    LET k == Cardinality({ i \in 1..Len(sorted) :
                             sorted[i].totalAmount - e.totalAmount <= 0 })
    IN  SubSeq(sorted, 1, k) \o <<e>> \o SubSeq(sorted, k + 1, Len(sorted))

\* the comparator (a, b) => b.totalAmount - a.totalAmount, stable sort
InsertByTotal(sorted, e) ==
    LET k == Cardinality({ i \in 1..Len(sorted) :
                             e.totalAmount - sorted[i].totalAmount <= 0 })
    IN  SubSeq(sorted, 1, k) \o <<e>> \o SubSeq(sorted, k + 1, Len(sorted))

RECURSIVE SortByTotal(_)
SortByTotal(rs) ==
    IF rs = <<>> THEN <<>>
    ELSE InsertByTotal(SortByTotal(SubSeq(rs, 1, Len(rs) - 1)), rs[Len(rs)])

\* the page parses a statement, ranks the categories and filters by one
CatInit ==
    /\ op = "categorize"
    /\ statement \in Statements
    /\ results = <<>>
    /\ viceType = <<>>
    /\ filtered = <<>>
    /\ startDate = NoDate
    /\ frequency = "daily"
    /\ zone = "east"
    /\ history = <<>>
    /\ amount = 0
    /\ cleanDays = <<>>
    /\ dateStr = NoDate
    /\ aggPortfolio = <<>>
    /\ NoStatement
    /\ UiIdle
    /\ Idle

CallDetect ==
    /\ op = "categorize"
    /\ pc = "ready"
    /\ pc' = "detect"
    /\ idx' = 1
    /\ results' = <<>>
    /\ UNCHANGED <<dcaVars, aggVars, parseVars, uiVars>>
    /\ UNCHANGED <<statement, viceType, filtered, result>>

\* one turn of the loop over Object.entries(VICE_KEYWORDS)
DetectStep ==
    /\ op = "categorize"
    /\ pc = "detect"
    /\ idx <= Len(VICE_KEYWORDS)
    /\ LET category == VICE_KEYWORDS[idx].key
           keywords == VICE_KEYWORDS[idx].keywords
           found == SelectSeq(statement, LAMBDA t : MatchesKeywords(t, keywords))
       IN  results' =
               IF Len(found) > 0
               THEN Append(results, [ category |-> category,
                                      matchCount |-> Len(found),
                                      totalAmount |-> SumAmounts(found) ])
               ELSE results
    /\ idx' = idx + 1
    /\ UNCHANGED <<dcaVars, aggVars, parseVars, uiVars>>
    /\ UNCHANGED <<statement, viceType, filtered, pc, result>>

\* return results.sort(...)
DetectReturn ==
    /\ op = "categorize"
    /\ pc = "detect"
    /\ idx > Len(VICE_KEYWORDS)
    /\ results' = SortByTotal(results)
    /\ result' = SortByTotal(results)
    /\ pc' = "detected"
    /\ UNCHANGED <<dcaVars, aggVars, parseVars, uiVars>>
    /\ UNCHANGED <<statement, viceType, filtered, idx>>

\* categorizeTransactions(transactions, viceType)
Categorize ==
    /\ op = "categorize"
    /\ pc = "detected"
    /\ \E type \in ViceTypes :
           /\ viceType' = type
           /\ filtered' = categorizeTransactions(statement, type)
    /\ pc' = "done"
    /\ UNCHANGED <<dcaVars, aggVars, parseVars, uiVars>>
    /\ UNCHANGED <<statement, results, idx, result>>

CatNext ==
    \/ CallDetect
    \/ DetectStep
    \/ DetectReturn
    \/ Categorize

CatSpec == CatInit /\ [][CatNext]_vars

(***************************************************************************)
(* useDCACalculation                                                       *)
(***************************************************************************)
MaxRenders == 3

\* the worker, the parser and the categorizers are at rest
LibIdle ==
    /\ startDate = NoDate
    /\ frequency = "daily"
    /\ zone = "east"
    /\ history = <<>>
    /\ amount = 0
    /\ cleanDays = <<>>
    /\ dateStr = NoDate
    /\ aggPortfolio = <<>>
    /\ NoStatement
    /\ NoCategorization
    /\ Idle

\* the arguments a render can pass: history (null or a price series), amount
\* and cleanDays; a change of startDate or frequency acts as a change of
\* cleanDays does
HookInputs ==
    [ history : {"null", "prices"},
      amount : {0, 50},
      cleanDays : { <<>>, << <<2024, 1, 2>> >> } ]

\* what the worker computes for the inputs of effect run n
WorkerResult(policy, n) ==
    [ portfolio |-> << [policy |-> policy, snapshot |-> n] >>,
      summary |-> << [policy |-> policy, snapshot |-> n] >> ]

\* the first member of Promise.all
ActualResult(request) ==
    IF Len(request.inputs.cleanDays) > 0
    THEN WorkerResult("ghost", request.snapshot)
    ELSE EmptyPortfolio

\* the second member of Promise.all
ProjectionResult(request) == WorkerResult("potential", request.snapshot)

\* the body of the calculation effect, run n, after the state cur
RunEffect(in, n, api, cur) ==
    IF in.history = "null" \/ api = "null" \/ in.amount <= 0
    THEN /\ calc' = [cur EXCEPT !.actual = EmptyPortfolio,
                                !.projection = EmptyPortfolio]
         /\ requests' = [i \in 1..Len(requests) |->
                            IF requests[i].snapshot = snapshot
                            THEN [requests[i] EXCEPT !.cancelled = TRUE]
                            ELSE requests[i]]
    ELSE /\ calc' = [cur EXCEPT !.isCalculating = TRUE, !.error = "null"]
         /\ requests' =
                Append([i \in 1..Len(requests) |->
                           IF requests[i].snapshot = snapshot
                           THEN [requests[i] EXCEPT !.cancelled = TRUE]
                           ELSE requests[i]],
                       [ snapshot |-> n, inputs |-> in, cancelled |-> FALSE,
                         state |-> "pending" ])

HookInit ==
    /\ op = "hook"
    /\ calcInputs \in HookInputs
    /\ snapshot = 0
    /\ workerAPI = "null"
    /\ requests = <<>>
    /\ calc = [ actual |-> EmptyPortfolio, projection |-> EmptyPortfolio,
                isCalculating |-> FALSE, error |-> "null" ]
    /\ NoMarketData
    /\ NoStoreCall
    /\ LibIdle

\* the first commit: the worker is created, then the calculation effect runs
Mount ==
    /\ op = "hook" /\ snapshot = 0
    /\ \E ok \in BOOLEAN :
           /\ workerAPI' = IF ok THEN "remote" ELSE "null"
           /\ RunEffect(calcInputs, 1, workerAPI',
                        IF ok THEN calc
                        ELSE [calc EXCEPT !.error =
                                  "Failed to initialize calculation engine"])
    /\ snapshot' = 1
    /\ UNCHANGED <<calcInputs, libVars, marketVars, storeVars>>

\* a render with changed dependencies: the cleanup sets cancelled, then the
\* effect runs again
ChangeInputs ==
    /\ op = "hook" /\ snapshot >= 1 /\ snapshot < MaxRenders
    /\ \E in \in HookInputs \ {calcInputs} :
           /\ calcInputs' = in
           /\ RunEffect(in, snapshot + 1, workerAPI, calc)
    /\ snapshot' = snapshot + 1
    /\ UNCHANGED <<workerAPI, libVars, marketVars, storeVars>>

Resolve_IgnoreCancelled(i) ==
    /\ op = "hook"
    /\ requests[i].state = "pending"
    /\ requests' = [requests EXCEPT ![i].state = "resolved"]
    /\ calc' = [calc EXCEPT !.actual = ActualResult(requests[i]),
                            !.projection = ProjectionResult(requests[i]),
                            !.isCalculating = FALSE]
    /\ UNCHANGED <<calcInputs, snapshot, workerAPI, libVars, marketVars,
                   storeVars>>

\* both worker calls of request i have answered
Resolve(i) ==
    /\ op = "hook"
    /\ requests[i].state = "pending"
    /\ requests' = [requests EXCEPT ![i].state = "resolved"]
    /\ calc' = IF ~requests[i].cancelled
               THEN [calc EXCEPT !.actual = ActualResult(requests[i]),
                                 !.projection = ProjectionResult(requests[i]),
                                 !.isCalculating = FALSE]
               ELSE calc
    /\ UNCHANGED <<calcInputs, snapshot, workerAPI, libVars, marketVars,
                   storeVars>>

\* a worker call of request i has failed
Reject(i) ==
    /\ op = "hook"
    /\ requests[i].state = "pending"
    /\ requests' = [requests EXCEPT ![i].state = "rejected"]
    /\ calc' = IF ~requests[i].cancelled
               THEN [calc EXCEPT !.error = "Failed to calculate portfolio",
                                 !.isCalculating = FALSE]
               ELSE calc
    /\ UNCHANGED <<calcInputs, snapshot, workerAPI, libVars, marketVars,
                   storeVars>>

Respond == \E i \in 1..Len(requests) : Resolve(i) \/ Reject(i)

HookNext ==
    \/ Mount
    \/ ChangeInputs
    \/ \E i \in 1..Len(requests) : Resolve(i)
    \/ \E i \in 1..Len(requests) : Reject(i)

HookSpec == HookInit /\ [][HookNext]_vars

\* the worker answers every call
HookLiveSpec == HookSpec /\ WF_vars(Respond)

(***************************************************************************)
(* useMarketData                                                           *)
(***************************************************************************)
MaxSymbols == 2

\* the symbols of SUPPORTED_ASSETS
SUPPORTED_ASSETS ==
    <<"SPY", "QQQ", "BTC-USD", "ETH-USD", "AAPL", "TSLA", "NVDA", "SHV">>

\* the keys of FALLBACK_DATA
FALLBACK_DATA == <<"SPY", "QQQ", "BTC-USD">>

\* a generated series: one point per weekday of the last five years
GeneratedSeries(sym) == [source |-> "fallback", symbol |-> sym, empty |-> FALSE]

\* result.data of a successful response
FetchedSeries(sym, isEmpty) == [source |-> "api", symbol |-> sym, empty |-> isEmpty]

\* FALLBACK_DATA[symbol] || null
getFallbackData(sym) ==
    IF \E i \in 1..Len(FALLBACK_DATA) : FALLBACK_DATA[i] = sym
    THEN GeneratedSeries(sym)
    ELSE NullSeries

\* how a fetch can end: a non-empty series, an empty series, a rejected
\* fetch, a response that is not ok, the abort after 15 s
Outcomes == {"data", "empty", "network error", "not ok", "timeout"}

\* the tasks without task i
Remove(ts, i) == SubSeq(ts, 1, i - 1) \o SubSeq(ts, i + 1, Len(ts))

ImportTask(sym, data) ==
    [kind |-> "import", symbol |-> sym, closure |-> data, cancelled |-> FALSE]

FetchTask(sym, fallbackData) ==
    [ kind |-> "fetch", symbol |-> sym, closure |-> fallbackData,
      cancelled |-> FALSE ]

\* the cleanup of the fetch effect
CancelFetches(ts) ==
    [i \in 1..Len(ts) |->
        IF ts[i].kind = "fetch" THEN [ts[i] EXCEPT !.cancelled = TRUE] ELSE ts[i]]

\* the synchronous part of fetchData
StartFetch(m) ==
    [m EXCEPT !.isLoading = IF m.fallbackData = NullSeries THEN TRUE ELSE @,
              !.error = "null"]

\* the effects run after a commit: the import effect when symbol or data
\* changed, the fetch effect when symbol or fallbackData changed
RunEffects(sym, m, ts, importDeps, fetchDeps) ==
    LET afterImport == IF importDeps THEN Append(ts, ImportTask(sym, m.data))
                       ELSE ts
    IN  IF fetchDeps
        THEN /\ market' = StartFetch(m)
             /\ tasks' = Append(CancelFetches(afterImport),
                                FetchTask(sym, m.fallbackData))
        ELSE /\ market' = m
             /\ tasks' = afterImport

MarketInit ==
    /\ op = "market"
    /\ NoMarketData
    /\ NoCalculation
    /\ NoStoreCall
    /\ LibIdle

\* the first render, or a render with another symbol
SelectSymbol ==
    /\ op = "market"
    /\ selections < MaxSymbols
    /\ \E i \in 1..Len(SUPPORTED_ASSETS) :
           /\ SUPPORTED_ASSETS[i] # symbol
           /\ symbol' = SUPPORTED_ASSETS[i]
           /\ RunEffects(SUPPORTED_ASSETS[i], market, tasks, TRUE, TRUE)
    /\ selections' = selections + 1
    /\ UNCHANGED <<fetched, libVars, hookVars, storeVars>>

\* the callback of import("@/lib/fallback-data"); the module is loaded once
\* and the callbacks run in the order of the import() calls
ImportDone(i) ==
    /\ op = "market"
    /\ tasks[i].kind = "import"
    /\ \A j \in 1..(i - 1) : tasks[j].kind # "import"
    /\ LET fallback == getFallbackData(tasks[i].symbol)
           shown == fallback # NullSeries /\ tasks[i].closure = NullSeries
           m == IF shown
                THEN [market EXCEPT !.fallbackData = fallback,
                                    !.data = fallback,
                                    !.isUsingFallback = TRUE,
                                    !.isLoading = FALSE]
                ELSE [market EXCEPT !.fallbackData = fallback]
       IN  RunEffects(symbol, m, Remove(tasks, i),
                      m.data # market.data,
                      m.fallbackData # market.fallbackData)
    /\ UNCHANGED <<symbol, selections, fetched, libVars, hookVars, storeVars>>

\* the fetch of task i ends: the code after the await, catch and finally
FetchDone(i) ==
    /\ op = "market"
    /\ tasks[i].kind = "fetch"
    /\ \E outcome \in Outcomes :
           LET failed == outcome \notin {"data", "empty"}
               m == IF outcome = "data"
                    THEN [market EXCEPT
                             !.data = FetchedSeries(tasks[i].symbol, FALSE),
                             !.isUsingFallback = FALSE,
                             !.error = "null",
                             !.isLoading = FALSE]
                    ELSE IF failed /\ tasks[i].closure # NullSeries
                    THEN [market EXCEPT !.data = tasks[i].closure,
                                        !.isUsingFallback = TRUE,
                                        !.isLoading = FALSE]
                    ELSE IF failed
                    THEN [market EXCEPT
                             !.error =
                                 "Market data unavailable. Try SPY, QQQ, or BTC-USD.",
                             !.isLoading = FALSE]
                    ELSE [market EXCEPT !.isLoading = FALSE]
           IN  IF tasks[i].cancelled
               THEN /\ market' = market
                    /\ tasks' = Remove(tasks, i)
                    /\ fetched' = fetched
               ELSE /\ RunEffects(symbol, m, Remove(tasks, i),
                                  outcome = "data", FALSE)
                    /\ fetched' = [symbol |-> tasks[i].symbol,
                                   outcome |-> outcome]
    /\ UNCHANGED <<symbol, selections, libVars, hookVars, storeVars>>

MarketNext ==
    \/ SelectSymbol
    \/ \E i \in 1..Len(tasks) : ImportDone(i)
    \/ \E i \in 1..Len(tasks) : FetchDone(i)

MarketSpec == MarketInit /\ [][MarketNext]_vars

(***************************************************************************)
(* The vice store: clean days, streak freezes, subscription                *)
(***************************************************************************)
\* the days getTodayISO can return and removeCleanDay can be given
StoreDays == { <<2024, 1, 30>>, <<2024, 1, 31>>, <<2024, 2, 1>> }

SubscriptionStatuses == {"active", "canceled", "none", "pending"}

\* Array.prototype.includes
includes(q, x) == \E i \in 1..Len(q) : q[i] = x

\* Array.prototype.sort without a comparator, on ISO dates: q with d put
\* before the first element that is greater
InsertInOrder(q, d) ==
    IF \E i \in 1..Len(q) : ~StrGE(d, q[i])
    THEN LET i == CHOOSE i \in 1..Len(q) :
                      /\ ~StrGE(d, q[i])
                      /\ \A j \in 1..(i - 1) : StrGE(d, q[j])
         IN  SubSeq(q, 1, i - 1) \o <<d>> \o SubSeq(q, i, Len(q))
    ELSE Append(q, d)

RECURSIVE sort(_)
sort(q) == IF q = <<>> THEN <<>>
           ELSE InsertInOrder(sort(SubSeq(q, 1, Len(q) - 1)), q[Len(q)])

\* today.substring(0, 7)
MonthOf(date) == <<date[1], date[2]>>

StoreInit ==
    /\ op = "store"
    /\ NoStoreCall
    /\ NoCalculation
    /\ NoMarketData
    /\ LibIdle

logCleanDay_NoGuard ==
    /\ op = "store"
    /\ \E day \in StoreDays :
           /\ lastCall' = [name |-> "logCleanDay", arg |-> day]
           /\ store' = [store EXCEPT
                           !.cleanDays = sort(Append(store.cleanDays, day)),
                           !.startDate = IF store.startDate = NoDate THEN day
                                         ELSE store.startDate]
    /\ returned' = "undefined"
    /\ UNCHANGED <<libVars, hookVars, marketVars>>

logCleanDay ==
    /\ op = "store"
    /\ \E day \in StoreDays :
           /\ lastCall' = [name |-> "logCleanDay", arg |-> day]
           /\ store' = IF includes(store.cleanDays, day) THEN store
                       ELSE [store EXCEPT
                                !.cleanDays = sort(Append(store.cleanDays, day)),
                                !.startDate = IF store.startDate = NoDate
                                              THEN day ELSE store.startDate]
    /\ returned' = "undefined"
    /\ UNCHANGED <<libVars, hookVars, marketVars>>

removeCleanDay ==
    /\ op = "store"
    /\ \E date \in StoreDays :
           /\ lastCall' = [name |-> "removeCleanDay", arg |-> date]
           /\ store' = [store EXCEPT
                           !.cleanDays = SelectSeq(store.cleanDays,
                                                   LAMBDA d : d # date)]
    /\ returned' = "undefined"
    /\ UNCHANGED <<libVars, hookVars, marketVars>>

useStreakFreeze_NoCheck ==
    /\ op = "store"
    /\ \E day \in StoreDays :
           /\ lastCall' = [name |-> "useStreakFreeze", arg |-> day]
           /\ IF MonthOf(day) # MonthOf(store.lastStreakFreezeReset)
              THEN /\ store' = [store EXCEPT
                                   !.streakFreezes =
                                       (IF store.subscriptionStatus = "active"
                                        THEN 3 ELSE 1) - 1,
                                   !.lastStreakFreezeReset = day]
                   /\ returned' = "true"
              ELSE /\ store' = [store EXCEPT !.streakFreezes = @ - 1]
                   /\ returned' = "true"
    /\ UNCHANGED <<libVars, hookVars, marketVars>>

useStreakFreeze ==
    /\ op = "store"
    /\ \E day \in StoreDays :
           /\ lastCall' = [name |-> "useStreakFreeze", arg |-> day]
           /\ IF MonthOf(day) # MonthOf(store.lastStreakFreezeReset)
              THEN /\ store' = [store EXCEPT
                                   !.streakFreezes =
                                       (IF store.subscriptionStatus = "active"
                                        THEN 3 ELSE 1) - 1,
                                   !.lastStreakFreezeReset = day]
                   /\ returned' = "true"
              ELSE IF store.streakFreezes > 0
              THEN /\ store' = [store EXCEPT !.streakFreezes = @ - 1]
                   /\ returned' = "true"
              ELSE /\ store' = store
                   /\ returned' = "false"
    /\ UNCHANGED <<libVars, hookVars, marketVars>>

setSubscription ==
    /\ op = "store"
    /\ \E status \in SubscriptionStatuses :
           /\ lastCall' = [name |-> "setSubscription", arg |-> NoDate]
           /\ store' = [store EXCEPT !.stripeSubscriptionId = "sub_1",
                                     !.subscriptionStatus = status]
    /\ returned' = "undefined"
    /\ UNCHANGED <<libVars, hookVars, marketVars>>

clearSubscription ==
    /\ op = "store"
    /\ lastCall' = [name |-> "clearSubscription", arg |-> NoDate]
    /\ store' = [store EXCEPT !.stripeSubscriptionId = "null",
                              !.subscriptionStatus = "none"]
    /\ returned' = "undefined"
    /\ UNCHANGED <<libVars, hookVars, marketVars>>

StoreNext ==
    \/ logCleanDay
    \/ removeCleanDay
    \/ useStreakFreeze
    \/ setSubscription
    \/ clearSubscription

StoreSpec == StoreInit /\ [][StoreNext]_vars

(***************************************************************************)
(* Properties of the simulators and the scheduler                          *)
(***************************************************************************)
Range(q) == { q[i] : i \in 1..Len(q) }

Simulating == op \in {"ghost", "potential"}

\* number of purchases logged at indices 1..i
PurchasesUpTo(i) == Cardinality({ j \in 1..i : purchaseLog[j] })

Scheduled(date) == shouldPurchaseOnDate(date, frequency, startDate, zone)

PrevCash(pf, i) == IF i = 1 THEN 0 ELSE pf[i - 1].cashSpent

PrevShares(pf, i) == IF i = 1 THEN 0 ELSE pf[i - 1].sharesOwned

ScenarioHistory ==
    << [date |-> <<2024, 1, 1>>, close |-> 100],
       [date |-> <<2024, 1, 2>>, close |-> 100],
       [date |-> <<2024, 1, 8>>, close |-> 110] >>

InScenario ==
    /\ op = "potential" /\ history = ScenarioHistory
    /\ startDate = <<2024, 1, 1>> /\ frequency = "weekly" /\ amount = Fixed(50)

\* C2: under the Potential policy a purchase occurs at a price point exactly
\* when its date is scheduled and its close is positive; each purchase adds
\* amount to cashSpent, amount / close to sharesOwned and 1 to purchasesCount;
\* in the scenario the purchases are on 01-01 and 01-08 and cashSpent ends at 100.
C2_PotentialPurchases ==
    op = "potential" =>
        /\ \A i \in 1..Len(portfolio) :
              /\ purchaseLog[i] <=>
                    (Scheduled(relevantHistory[i].date) /\ relevantHistory[i].close > 0)
              /\ purchaseLog[i] =>
                    /\ portfolio[i].cashSpent = PrevCash(portfolio, i) + amount
                    /\ (portfolio[i].sharesOwned - PrevShares(portfolio, i))
                          * relevantHistory[i].close = amount
              /\ ~purchaseLog[i] =>
                    /\ portfolio[i].cashSpent = PrevCash(portfolio, i)
                    /\ portfolio[i].sharesOwned = PrevShares(portfolio, i)
        /\ purchasesCount = PurchasesUpTo(Len(purchaseLog))
        /\ (InScenario /\ pc = "done") =>
              /\ purchaseLog = <<TRUE, FALSE, TRUE>>
              /\ result.summary.totalCashSpent = Fixed(100)
              /\ result.summary.purchasesCount = 2

C2_Witness ==
    /\ InScenario /\ pc = "done"
    /\ result.portfolio[3].cashSpent = Fixed(100)

\* C3: under the Ghost policy the number of purchases never exceeds the
\* number of clean days, at every step of the pass and in the summary.
C3_PurchasesBoundedByCleanDays ==
    op = "ghost" =>
        /\ purchasesCount <= Len(cleanDays)
        /\ pc = "done" =>
              result.summary.purchasesCount <= result.summary.cleanDaysCount

C3_Witness ==
    /\ op = "ghost" /\ pc = "done"
    /\ Len(cleanDays) > 0
    /\ result.summary.purchasesCount = Len(cleanDays)
    /\ \E i \in 1..Len(purchaseLog) :
          ~purchaseLog[i] /\ Scheduled(portfolio[i].date)
                          /\ relevantHistory[i].close > 0

NonDecreasing(pf) ==
    \A i \in 2..Len(pf) :
        /\ pf[i].cashSpent >= pf[i - 1].cashSpent
        /\ pf[i].sharesOwned >= pf[i - 1].sharesOwned

\* C4: with amount > 0, cashSpent and sharesOwned never decrease along the
\* portfolio of either simulator.
C4_Monotonic ==
    (Simulating /\ amount > 0) =>
        /\ NonDecreasing(portfolio)
        /\ pc = "done" => NonDecreasing(result.portfolio)

C4_Witness ==
    /\ Simulating /\ pc = "done"
    /\ Len(result.portfolio) >= 2
    /\ result.portfolio[2].cashSpent > result.portfolio[1].cashSpent
    /\ result.portfolio[1].cashSpent > 0
    /\ relevantHistory[2].close > relevantHistory[1].close

KeptIndices ==
    { i \in 1..Len(history) : GetTime(history[i].date) >= GetTime(startDate) }

\* C6: Potential, and Ghost with at least one clean day, return one portfolio
\* point for each input point with date >= startDate, in input order and with
\* the same dates, and none for an earlier date; no input point from the
\* start date on gives an empty portfolio.
C6_OnePointPerRelevantPrice ==
    (pc = "done" /\ (op = "potential" \/ (op = "ghost" /\ Len(cleanDays) >= 1))) =>
        LET n == Cardinality(KeptIndices)
            skipped == Len(history) - n
        IN  /\ Len(result.portfolio) = n
            /\ \A k \in 1..n :
                  /\ skipped + k \in KeptIndices
                  /\ result.portfolio[k].date = history[skipped + k].date
            /\ KeptIndices = {} => result.portfolio = <<>>

C6_Witness ==
    /\ pc = "done" /\ op = "ghost" /\ Len(cleanDays) >= 1
    /\ Len(history) = 3
    /\ history[1].date # startDate /\ history[2].date = startDate
    /\ Len(result.portfolio) = 2

\* C7: the summary's totalCashSpent, totalShares and currentValue equal the
\* last portfolio point's cashSpent, sharesOwned and portfolioValue, and are
\* all 0 when the portfolio is empty.
C7_SummaryMatchesLastPoint ==
    (Simulating /\ pc = "done") =>
        LET pf == result.portfolio
            sm == result.summary
        IN  IF Len(pf) = 0
            THEN sm.totalCashSpent = 0 /\ sm.totalShares = 0 /\ sm.currentValue = 0
            ELSE /\ sm.totalCashSpent = pf[Len(pf)].cashSpent
                 /\ sm.totalShares = pf[Len(pf)].sharesOwned
                 /\ sm.currentValue = pf[Len(pf)].portfolioValue

C7_Witness ==
    /\ Simulating /\ pc = "done"
    /\ Len(result.portfolio) >= 2
    /\ result.portfolio[1].portfolioValue > 0
    /\ result.summary.currentValue > result.portfolio[1].portfolioValue
    /\ result.summary.totalShares > 0

\* C8: gainLoss = currentValue - totalCashSpent, and gainLossPercent is 0
\* when totalCashSpent is 0 and gainLoss / totalCashSpent * 100 otherwise.
C8_GainLoss ==
    (Simulating /\ pc = "done") =>
        LET sm == result.summary
            pct == sm.gainLossPercent
        IN  /\ sm.gainLoss = sm.currentValue - sm.totalCashSpent
            /\ pct[2] # 0
            /\ sm.totalCashSpent = 0 => pct[1] = 0
            /\ sm.totalCashSpent # 0 =>
                  pct[1] * sm.totalCashSpent = sm.gainLoss * 100 * pct[2]

C8_Witness ==
    /\ Simulating /\ pc = "done"
    /\ result.summary.totalCashSpent > 0
    /\ result.summary.gainLoss > 0
    /\ result.summary.gainLossPercent[1] > 0

\* C9: calculateGhostPortfolio with an empty cleanDays returns an empty
\* portfolio and a summary whose seven fields are all 0, whatever the prices,
\* start date, cadence and amount.
C9_NoCleanDaysGivesZeroResult ==
    (op = "ghost" /\ cleanDays = <<>> /\ pc = "done") =>
        LET sm == result.summary
        IN  /\ result.portfolio = <<>>
            /\ sm.totalCashSpent = 0 /\ sm.currentValue = 0 /\ sm.totalShares = 0
            /\ sm.gainLoss = 0 /\ sm.gainLossPercent[1] = 0
            /\ sm.cleanDaysCount = 0 /\ sm.purchasesCount = 0

C9_Witness ==
    /\ op = "ghost" /\ cleanDays = <<>> /\ pc = "done"
    /\ \E i \in 1..Len(history) :
          /\ StrGE(history[i].date, startDate)
          /\ Scheduled(history[i].date)
          /\ history[i].close > 0

\* C10: shouldPurchaseOnDate is false for every date before startDate under
\* every cadence and true for every date >= startDate under the daily
\* cadence; no simulation logs a purchase at a date before startDate.
C10_NoPurchaseBeforeStart ==
    /\ (op = "schedule" /\ pc = "done") =>
          /\ ~StrGE(dateStr, startDate) => result = FALSE
          /\ (StrGE(dateStr, startDate) /\ frequency = "daily") => result = TRUE
    /\ Simulating =>
          \A i \in 1..Len(purchaseLog) :
              purchaseLog[i] => StrGE(portfolio[i].date, startDate)

C10_Witness ==
    /\ op = "schedule" /\ pc = "done"
    /\ frequency = "weekly"
    /\ dateStr = <<2024, 1, 1>> /\ startDate = <<2024, 1, 8>>
    /\ result = FALSE

\* days from startDate to the evaluated date
DaysSinceStart == GetTime(dateStr) - GetTime(startDate)

ScheduleDone == op = "schedule" /\ pc = "done"

\* C11: under the weekly cadence a date >= startDate is scheduled exactly
\* when the number of days since startDate is a multiple of 7 (the same
\* weekday as startDate); from 2024-01-01, 2024-01-08 is scheduled and
\* 2024-01-09 is not.
C11_WeeklyEverySevenDays ==
    (ScheduleDone /\ frequency = "weekly" /\ StrGE(dateStr, startDate)) =>
        /\ result <=> (DaysSinceStart % 7 = 0)
        /\ (startDate = <<2024, 1, 1>> /\ dateStr = <<2024, 1, 8>>) => result
        /\ (startDate = <<2024, 1, 1>> /\ dateStr = <<2024, 1, 9>>) => ~result

\* C12: under the biweekly cadence a date >= startDate is scheduled exactly
\* when the number of days since startDate is a multiple of 14.
C12_BiweeklyEveryFourteenDays ==
    (ScheduleDone /\ frequency = "biweekly" /\ StrGE(dateStr, startDate)) =>
        (result <=> (DaysSinceStart % 14 = 0))

\* C13: under the monthly cadence a date >= startDate is scheduled exactly
\* when its day of the month is startDate's day of the month, so a month
\* without that day has no scheduled date.
C13_MonthlySameDayOfMonth ==
    (ScheduleDone /\ frequency = "monthly" /\ StrGE(dateStr, startDate)) =>
        (result <=> (dateStr[3] = startDate[3]))

\* C14: the scheduler's answer for (date, cadence, startDate) is the same in
\* every local time zone, for every cadence.
C14_SameAnswerInEveryZone ==
    ScheduleDone =>
        \A z \in Zones :
            result = shouldPurchaseOnDate(dateStr, frequency, startDate, z)

(***************************************************************************)
(* Properties of aggregateByMonth                                          *)
(***************************************************************************)
AggregateDone == op = "aggregate" /\ pc = "done"

MonthsOf(pf) == { MonthKey(pf[i].date) : i \in 1..Len(pf) }

\* index of the last point of pf in the given month
LastIndexIn(pf, month) ==
    CHOOSE i \in 1..Len(pf) :
        /\ MonthKey(pf[i].date) = month
        /\ \A j \in (i + 1)..Len(pf) : MonthKey(pf[j].date) # month

AscendingDates(pf) == \A i \in 2..Len(pf) : StrGE(pf[i].date, pf[i - 1].date)

\* C15: aggregateByMonth returns one point per distinct (year, month) of its
\* input, namely the last input point of that month, and for an input in
\* ascending date order the output is in ascending date order.
C15_LastPointPerMonth ==
    AggregateDone =>
        /\ Len(result) = Cardinality(MonthsOf(aggPortfolio))
        /\ MonthsOf(result) = MonthsOf(aggPortfolio)
        /\ \A k \in 1..Len(result) :
              result[k] = aggPortfolio[LastIndexIn(aggPortfolio,
                                                   MonthKey(result[k].date))]
        /\ AscendingDates(aggPortfolio) => AscendingDates(result)

C15_Witness ==
    /\ AggregateDone /\ firstCall = NoResult
    /\ Len(aggPortfolio) = 3 /\ Len(result) = 2
    /\ AscendingDates(aggPortfolio)
    /\ aggPortfolio[1].date = <<2024, 1, 1>>
    /\ aggPortfolio[2].date = <<2024, 1, 15>>
    /\ result[1] = aggPortfolio[2]

\* C16: aggregating an already aggregated series returns it unchanged, same
\* points in the same order.
C16_AggregateIdempotent ==
    (AggregateDone /\ firstCall # NoResult) =>
        /\ aggPortfolio = firstCall.returned
        /\ result = firstCall.returned

C16_Witness ==
    /\ AggregateDone /\ firstCall # NoResult
    /\ Len(firstCall.portfolio) = 3
    /\ Len(firstCall.returned) = 2
    /\ ~AscendingDates(firstCall.portfolio)
    /\ result = firstCall.returned

(***************************************************************************)
(* Properties of the statement parser                                      *)
(***************************************************************************)
Parsing == op = "parse" /\ pc \in {"loop", "done"}

ParseDone == op = "parse" /\ pc = "done"

\* CHASE_PATTERNS, WELLS_FARGO_PATTERNS and BOA_PATTERNS come first
NumIssuerPatterns == 7

IssuerSpecific(m) == m.pattern <= NumIssuerPatterns

RangeOf(m) == [start |-> m.index, end |-> m.index + Len(m.rawMatch)]

Overlap(r, q) == r.start < q.end /\ q.start < r.end

\* the matches accepted so far
Accepted == { accepted[k] : k \in 1..Len(accepted) }

\* the loops meet the patterns in priority order, and the accepted matches
\* are the claimed ranges, in the order they were accepted
C17_PriorityOrder ==
    /\ \A i \in 1..Len(matches), j \in 1..Len(matches) :
           i < j => matches[i].pattern <= matches[j].pattern
    /\ Len(matchedRanges) = Len(accepted)
    /\ \A k \in 1..Len(accepted) :
           /\ accepted[k] < idx
           /\ matchedRanges[k] = RangeOf(matches[accepted[k]])
           /\ \A j \in 1..(k - 1) : accepted[j] < accepted[k]

C17_StarbucksExample ==
    (ParseDone /\ text = <<1>>) => Len(result) = 1

\* C17 as stated: patterns are tried in priority order, the claimed ranges
\* are pairwise disjoint at every step, text that an issuer-specific and a
\* generic pattern both match yields no generic extraction, and the
\* Starbucks line yields exactly one transaction.
C17_IssuerMatchedTextYieldsNoGenericExtraction ==
    Parsing =>
        /\ C17_PriorityOrder
        /\ \A j \in 1..Len(matchedRanges), k \in 1..Len(matchedRanges) :
               j # k => ~Overlap(matchedRanges[j], matchedRanges[k])
        /\ \A g \in Accepted, i \in 1..Len(matches) :
               (~IssuerSpecific(matches[g]) /\ IssuerSpecific(matches[i]))
                   => ~Overlap(RangeOf(matches[g]), RangeOf(matches[i]))
        /\ C17_StarbucksExample

\* C17, amended: patterns are tried in priority order; a match is never
\* accepted if its range overlaps the range of a match accepted before it, so
\* the claimed ranges are pairwise disjoint at every step; text claimed by an
\* accepted issuer-specific match yields no generic extraction; the Starbucks
\* line yields exactly one transaction.
C17_AcceptedRangesDisjoint ==
    Parsing =>
        /\ C17_PriorityOrder
        /\ \A j \in 1..Len(matchedRanges), k \in 1..Len(matchedRanges) :
               j # k => ~Overlap(matchedRanges[j], matchedRanges[k])
        /\ \A g \in Accepted, i \in Accepted :
               (~IssuerSpecific(matches[g]) /\ IssuerSpecific(matches[i]))
                   => ~Overlap(RangeOf(matches[g]), RangeOf(matches[i]))
        /\ C17_StarbucksExample

\* a generic match over text an accepted issuer-specific match claimed was
\* met and left out, in a text of two lines
C17_Witness ==
    /\ ParseDone
    /\ Len(text) = 2
    /\ Len(result) = 2
    /\ \E i \in Accepted, g \in 1..Len(matches) :
           /\ IssuerSpecific(matches[i])
           /\ ~IssuerSpecific(matches[g])
           /\ Overlap(RangeOf(matches[g]), RangeOf(matches[i]))
           /\ g \notin Accepted

\* the fields of a date string, month first
DateFields(s) ==
    LET t == trim(s)
    IN  IF \E i \in 1..Len(t) : t[i] = "/" THEN Split(t, "/") ELSE Split(t, "-")

\* the date string names a month and a day of that month
DenotesCalendarDate(s) ==
    LET f == DateFields(s)
    IN  /\ Len(f) \in {2, 3}
        /\ \A i \in 1..Len(f) : f[i] # <<>> /\ AllDigits(f[i])
        /\ ParseInt(f[1]) \in 1..12
        /\ ParseInt(f[2]) >= 1
        /\ ParseInt(f[2]) <=
               (IF Len(f) = 2 THEN DaysInMonth(2024, ParseInt(f[1]))
                ELSE IF Len(f[3]) = 2
                     THEN DaysInMonth(FullYear(f[3]), ParseInt(f[1]))
                     ELSE DaysInMonth(ParseInt(f[3]), ParseInt(f[1])))

\* C18: a candidate whose date string does not denote a valid calendar date
\* is dropped: no transaction is emitted for it, and no emitted transaction
\* carries today's date in place of the date of its candidate.
C18_InvalidDateDropped ==
    Parsing =>
        \A k \in 1..Len(accepted) :
            /\ DenotesCalendarDate(matches[accepted[k]].dateStr)
            /\ transactions[k].date # today

\* the fuzzy key: date, first 20 characters of the lowercased
\* alphanumeric-only description, amount in cents
FuzzyKey(t) ==
    LET alnum == SelectSeq(toLowerCase(t.description), IsLowerAlnum)
    IN  <<t.date, [i \in 1..(IF Len(alnum) < 20 THEN Len(alnum) ELSE 20) |->
                       alnum[i]], t.amount>>

\* the first accepted transaction that has the key of transaction k
FirstWithKey(k) ==
    CHOOSE j \in 1..k :
        /\ FuzzyKey(transactions[j]) = FuzzyKey(transactions[k])
        /\ \A i \in 1..(j - 1) :
               FuzzyKey(transactions[i]) # FuzzyKey(transactions[k])

\* C19: the output holds no two transactions with the same fuzzy key, and
\* of the accepted candidates that share a key it holds the one accepted
\* first, and only that one.
C19_OnePerFuzzyKey ==
    ParseDone =>
        /\ \A i \in 1..Len(result), j \in 1..Len(result) :
               i # j => FuzzyKey(result[i]) # FuzzyKey(result[j])
        /\ \A k \in 1..Len(transactions) :
               \E i \in 1..Len(result) : result[i] = transactions[FirstWithKey(k)]
        /\ \A i \in 1..Len(result) :
               \E k \in 1..Len(transactions) :
                   result[i] = transactions[FirstWithKey(k)]

\* two accepted candidates with different descriptions share a key, and the
\* output holds the first of them only
C19_Witness ==
    /\ ParseDone
    /\ Len(transactions) = 2
    /\ transactions[1].description # transactions[2].description
    /\ FuzzyKey(transactions[1]) = FuzzyKey(transactions[2])
    /\ result = << transactions[1] >>

\* the candidate fails the description or the amount validation
FailsValidation(m) ==
    LET description == CleanedDescription[m.descriptionRaw]
        amt == ParsedAmount[m.amountStr]
    IN  \/ Len(description) < 3
        \/ \E w \in HeaderWords : HasAt(toLowerCase(description), 1, w)
        \/ amt.isNaN
        \/ amt.cents <= 0
        \/ amt.cents > 100 * 100000

\* C20: every emitted transaction has a finite amount with
\* 0 < amount <= 100000, the absolute value of the matched amount, and a
\* cleaned description of at least 3 characters that does not start with a
\* column-header word; a candidate failing any of these is skipped and
\* claims no range: every accepted candidate passes, and the claimed ranges
\* are those of the accepted candidates.
C20_EmittedTransactionsValid ==
    Parsing =>
        /\ Len(transactions) = Len(accepted)
        /\ Len(matchedRanges) = Len(accepted)
        /\ \A k \in 1..Len(accepted) :
               LET m == matches[accepted[k]]
                   t == transactions[k]
               IN  /\ ~FailsValidation(m)
                   /\ t.amount = ParsedAmount[m.amountStr].cents
                   /\ t.amount > 0 /\ t.amount <= 100 * 100000
                   /\ t.description = CleanedDescription[m.descriptionRaw]
                   /\ Len(t.description) >= 3
                   /\ matchedRanges[k] = RangeOf(m)
        /\ pc = "done" =>
               \A i \in 1..Len(result) :
                   \E k \in 1..Len(transactions) : result[i] = transactions[k]

\* a candidate with too short a description was skipped and a later match
\* over the same text was accepted; an amount of exactly 100000 was emitted
C20_Witness ==
    /\ ParseDone
    /\ \E i \in 1..Len(matches), g \in Accepted :
           /\ Len(CleanedDescription[matches[i].descriptionRaw]) < 3
           /\ i < g
           /\ Overlap(RangeOf(matches[i]), RangeOf(matches[g]))
    /\ \E i \in 1..Len(result) : result[i].amount = 100 * 100000

\* where a returned transaction stands in the parse order
ParsePosition(t) ==
    CHOOSE k \in 1..Len(transactions) :
        /\ transactions[k] = t
        /\ \A j \in 1..(k - 1) : transactions[j] # t

\* C21: the returned sequence is in ascending order of date, and returned
\* transactions of equal date stand in their parse order, which is pattern
\* priority first and position in the text second.
C21_SortedByDateStable ==
    ParseDone =>
        /\ \A i \in 1..Len(result), j \in 1..Len(result) :
               i < j =>
                   /\ StrGE(result[j].date, result[i].date)
                   /\ result[i].date = result[j].date =>
                          ParsePosition(result[i]) < ParsePosition(result[j])
        /\ \A k \in 1..Len(accepted), l \in 1..Len(accepted) :
               k < l =>
                   LET m == matches[accepted[k]]
                       n == matches[accepted[l]]
                   IN  \/ m.pattern < n.pattern
                       \/ m.pattern = n.pattern /\ m.index < n.index

\* two transactions of equal date are returned in parse order: the one
\* matched by the earlier pattern stands first although it stands later in
\* the text
C21_Witness ==
    /\ ParseDone
    /\ Len(transactions) = 2
    /\ transactions[1].date = transactions[2].date
    /\ matches[accepted[1]].pattern < matches[accepted[2]].pattern
    /\ matches[accepted[1]].index > matches[accepted[2]].index
    /\ result = transactions

(***************************************************************************)
(* Properties of the categorizers                                          *)
(***************************************************************************)
Ranked == op = "categorize" /\ pc \in {"detected", "done"}

Categorized == op = "categorize" /\ pc = "done"

\* the lowercased description contains a keyword of the category
BelongsTo(t, key) ==
    \E c \in 1..Len(VICE_KEYWORDS) :
        /\ VICE_KEYWORDS[c].key = key
        /\ \E i \in 1..Len(VICE_KEYWORDS[c].keywords) :
               Contains(toLowerCase(t.description), VICE_KEYWORDS[c].keywords[i])

MembersOf(key) == SelectSeq(statement, LAMBDA t : BelongsTo(t, key))

\* C22: for a category of the taxonomy, categorizeTransactions returns, in
\* input order, exactly the transactions whose lowercased description
\* contains a keyword of that category; a transaction of several categories
\* is returned for each of them.
C22_CategorizeReturnsMembers ==
    (Categorized /\ viceType \in CategoryKeys) => filtered = MembersOf(viceType)

\* C23: detectViceCategory returns one entry for each category that has a
\* matching transaction and none for the others; matchCount is the number of
\* matching transactions, totalAmount the sum of their amounts; the entries
\* are in descending order of totalAmount (NETFLIX 15 and STARBUCKS 5 rank
\* subscriptions before coffee).
C23_DetectRanksCategories ==
    Ranked =>
        /\ \A key \in CategoryKeys :
               Len(MembersOf(key)) > 0 <=>
                   \E i \in 1..Len(results) : results[i].category = key
        /\ \A i \in 1..Len(results), j \in 1..Len(results) :
               i # j => results[i].category # results[j].category
        /\ \A i \in 1..Len(results) :
               /\ results[i].category \in CategoryKeys
               /\ results[i].matchCount = Len(MembersOf(results[i].category))
               /\ results[i].totalAmount =
                      SumAmounts(MembersOf(results[i].category))
        /\ \A i \in 1..Len(results), j \in 1..Len(results) :
               i < j => results[i].totalAmount >= results[j].totalAmount
        /\ result = results
        /\ ( /\ Len(statement) = 2
             /\ statement[1].description = <<"N", "E", "T", "F", "L", "I", "X",
                                             ".", "C", "O", "M">>
             /\ statement[1].amount = 1500
             /\ BelongsTo(statement[2], <<"c", "o", "f", "f", "e", "e">>)
             /\ statement[2].amount = 500 )
           => /\ Len(results) = 2
              /\ results[1].category = <<"s", "u", "b", "s", "c", "r", "i", "p",
                                         "t", "i", "o", "n", "s">>
              /\ results[2].category = <<"c", "o", "f", "f", "e", "e">>

\* NETFLIX 15 and STARBUCKS 5: coffee is found first, subscriptions ranks
\* first
C23_Witness ==
    /\ Ranked
    /\ Len(statement) = 2
    /\ statement[1].amount = 1500
    /\ statement[2].amount = 500
    /\ Len(results) = 2
    /\ results[1].category = <<"s", "u", "b", "s", "c", "r", "i", "p", "t", "i",
                               "o", "n", "s">>
    /\ results[1].totalAmount = 1500
    /\ results[2].category = <<"c", "o", "f", "f", "e", "e">>
    /\ results[2].totalAmount = 500

\* C28: for each entry detectViceCategory returns, categorizeTransactions
\* called with the entry's category returns the entry's matching
\* transactions, matchCount of them, whatever the case of the key.
C28_DetectAndCategorizeAgree ==
    Categorized =>
        \A i \in 1..Len(results) :
            results[i].category = viceType =>
                /\ Len(filtered) = results[i].matchCount
                /\ filtered = MembersOf(viceType)

(***************************************************************************)
(* Order of the Ghost purchases                                            *)
(***************************************************************************)
\* the point can be bought at: scheduled date and positive close
Purchasable(point) == Scheduled(point.date) /\ point.close > 0

\* number of purchasable points among the first i points of relevantHistory
PurchasableUpTo(i) ==
    Cardinality({ j \in 1..i : Purchasable(relevantHistory[j]) })

\* C26: with N = cleanDays.length >= 1, calculateGhostPortfolio purchases at
\* exactly the first N points of the history from startDate on that are
\* scheduled and have a positive close, in chronological order; a scheduled
\* point with close <= 0 uses up no slot, and after N purchases no later
\* point is a purchase.
C26_FirstNPurchasablePoints ==
    (op = "ghost" /\ Len(cleanDays) >= 1 /\ pc \in {"loop", "done"}) =>
        /\ relevantHistory = FilterFromStart(history, startDate)
        /\ IsAscending([i \in 1..Len(relevantHistory) |-> relevantHistory[i].date])
        /\ \A i \in 1..Len(purchaseLog) :
               /\ portfolio[i].date = relevantHistory[i].date
               /\ purchaseLog[i] <=>
                      /\ Purchasable(relevantHistory[i])
                      /\ PurchasableUpTo(i - 1) < Len(cleanDays)
               /\ PurchasesUpTo(i - 1) = Len(cleanDays) => ~purchaseLog[i]
        /\ purchasesCount = PurchasesUpTo(Len(purchaseLog))

\* a scheduled point with close 0 is passed without a purchase, the N
\* purchases are made after it, and a later purchasable point is not bought
C26_Witness ==
    /\ op = "ghost" /\ pc = "done" /\ Len(cleanDays) >= 1
    /\ result.summary.purchasesCount = Len(cleanDays)
    /\ \E i \in 1..Len(purchaseLog), j \in 1..Len(purchaseLog),
          k \in 1..Len(purchaseLog) :
          /\ i < j /\ j < k
          /\ Scheduled(relevantHistory[i].date) /\ relevantHistory[i].close <= 0
          /\ ~purchaseLog[i]
          /\ purchaseLog[j]
          /\ Purchasable(relevantHistory[k]) /\ ~purchaseLog[k]

(***************************************************************************)
(* Properties of useDCACalculation                                         *)
(***************************************************************************)
\* request i has answered in this step
Answers(i) == requests'[i].state # requests[i].state

\* the portfolio data comes from effect run n, or is empty
BelongsTo_Snapshot(data, n) ==
    \A k \in 1..Len(data.portfolio) : data.portfolio[k].snapshot = n

\* the answer of a superseded request changes nothing of the hook's state
SupersededAnswerDiscarded ==
    \A i \in 1..Len(requests) :
        (requests[i].cancelled /\ Answers(i)) => calc' = calc

\* C24 as stated: the answer of a request superseded by a change of inputs is
\* never written to the actual, projection or error state, and the displayed
\* result always belongs to the most recent input snapshot or is empty.
C24_DisplayedBelongsToLatestInputs ==
    /\ [][SupersededAnswerDiscarded]_vars
    /\ [](op = "hook" =>
             /\ BelongsTo_Snapshot(calc.actual, snapshot)
             /\ BelongsTo_Snapshot(calc.projection, snapshot))

\* C24 amended: the answer of a request superseded by a change of inputs is
\* never written to the actual, projection or error state; a result belongs
\* to the most recent input snapshot when it is written, and stays displayed
\* until a later request answers or a later effect run clears it.
C24_WrittenResultBelongsToLatestInputs ==
    [][ /\ SupersededAnswerDiscarded
        /\ (calc'.actual # calc.actual \/ calc'.projection # calc.projection) =>
               \/ /\ calc'.actual = EmptyPortfolio
                  /\ calc'.projection = EmptyPortfolio
               \/ \E i \in 1..Len(requests) :
                      /\ Answers(i)
                      /\ ~requests[i].cancelled
                      /\ requests[i].snapshot = snapshot
                      /\ requests[i].inputs = calcInputs
                      /\ calc'.actual = ActualResult(requests[i])
                      /\ calc'.projection = ProjectionResult(requests[i])
        /\ (calc'.error # calc.error /\ calc'.error # "null" /\ snapshot >= 1) =>
               \E i \in 1..Len(requests) :
                   /\ Answers(i)
                   /\ ~requests[i].cancelled
                   /\ requests[i].snapshot = snapshot ]_vars

\* a superseded request has answered while its successor is still pending,
\* and nothing of its answer is displayed
C24_Witness ==
    /\ op = "hook"
    /\ \E i \in 1..Len(requests), j \in 1..Len(requests) :
          /\ i < j
          /\ requests[i].cancelled
          /\ requests[i].state \in {"resolved", "rejected"}
          /\ requests[j].state = "pending" /\ ~requests[j].cancelled
    /\ calc.projection = EmptyPortfolio
    /\ calc.error = "null"
    /\ calc.isCalculating

\* a request that is neither answered nor superseded
InFlight ==
    \E i \in 1..Len(requests) :
        requests[i].state = "pending" /\ ~requests[i].cancelled

\* C27: isCalculating is true only while a request that is not superseded is
\* in flight; once every issued request has resolved, failed or been
\* superseded, isCalculating becomes false, also when the superseding inputs
\* take the early return (no history, or amount <= 0).
C27_IsCalculatingOnlyWhileInFlight ==
    /\ [](op = "hook" => (calc.isCalculating => InFlight))
    /\ ((op = "hook" /\ snapshot >= 1 /\ ~InFlight) ~> ~calc.isCalculating)

(***************************************************************************)
(* Properties of useMarketData                                             *)
(***************************************************************************)
\* the last fetch in effect was for the selected symbol and failed, and no
\* import or fetch is pending
FetchFailed ==
    /\ op = "market"
    /\ fetched.symbol = symbol
    /\ fetched.outcome \in {"network error", "not ok", "timeout"}
    /\ tasks = <<>>

\* C25: whenever the price fetch for the selected symbol fails (network
\* error, response that is not ok, timeout), data ends up being the non-empty
\* bundled fallback series of that symbol, for every supported symbol.
C25_FailedFetchEndsWithFallback ==
    FetchFailed =>
        /\ market.data = GeneratedSeries(symbol)
        /\ ~market.data.empty
        /\ market.isUsingFallback

(***************************************************************************)
(* Properties of the vice store                                            *)
(***************************************************************************)
\* the step is a call of the store action of that name
Calls(name) == op = "store" /\ lastCall'.name = name

\* C29: after any sequence of logCleanDay and removeCleanDay calls from the
\* initial state, cleanDays is in ascending order without duplicates, so its
\* length is the number of distinct clean days; logCleanDay on a day already
\* logged leaves the whole store unchanged, and removeCleanDay changes
\* nothing but cleanDays.
C29_CleanDaysAscendingDistinct ==
    /\ [](op = "store" =>
             /\ IsAscending(store.cleanDays)
             /\ Len(store.cleanDays) = Cardinality(Range(store.cleanDays)))
    /\ [][ /\ Calls("logCleanDay") =>
                 IF includes(store.cleanDays, lastCall'.arg)
                 THEN store' = store
                 ELSE Range(store'.cleanDays) =
                          Range(store.cleanDays) \cup {lastCall'.arg}
           /\ Calls("removeCleanDay") =>
                 /\ store' = [store EXCEPT !.cleanDays = store'.cleanDays]
                 /\ Range(store'.cleanDays) =
                        Range(store.cleanDays) \ {lastCall'.arg} ]_vars

\* the three days are logged, the earliest one last
C29_Witness ==
    /\ op = "store"
    /\ lastCall = [name |-> "logCleanDay", arg |-> <<2024, 1, 30>>]
    /\ store.cleanDays = << <<2024, 1, 30>>, <<2024, 1, 31>>, <<2024, 2, 1>> >>
    /\ store.startDate = <<2024, 1, 31>>

\* the allowance of a month
Allowance(status) == IF status = "active" THEN 3 ELSE 1

\* C30: after any sequence of useStreakFreeze calls and changes of the
\* subscription status, streakFreezes is never negative; useStreakFreeze
\* returns true exactly when it consumed a freeze, where the first call in a
\* new calendar month resets the allowance to 3 for an active subscription
\* and to 1 otherwise and consumes one; it returns false and leaves the
\* store unchanged when called in the month of the last reset with no
\* freeze left.
C30_StreakFreezesNeverNegative ==
    /\ [](op = "store" => store.streakFreezes >= 0)
    /\ [][ Calls("useStreakFreeze") =>
             LET newMonth == MonthOf(lastCall'.arg)
                                 # MonthOf(store.lastStreakFreezeReset)
                 consumed ==
                     \/ /\ newMonth
                        /\ store' = [store EXCEPT
                              !.streakFreezes =
                                  Allowance(store.subscriptionStatus) - 1,
                              !.lastStreakFreezeReset = lastCall'.arg]
                     \/ /\ ~newMonth
                        /\ store.streakFreezes > 0
                        /\ store' = [store EXCEPT !.streakFreezes = @ - 1]
             IN  /\ returned' = "true" <=> consumed
                 /\ returned' \in {"true", "false"}
                 /\ returned' = "false" =>
                        /\ ~newMonth
                        /\ store.streakFreezes = 0
                        /\ store' = store ]_vars

\* an active subscriber has used the three freezes of the month and is
\* refused a fourth
C30_Witness ==
    /\ op = "store"
    /\ lastCall.name = "useStreakFreeze"
    /\ returned = "false"
    /\ store.subscriptionStatus = "active"
    /\ store.streakFreezes = 0
    /\ MonthOf(store.lastStreakFreezeReset) = MonthOf(lastCall.arg)

====
